---- MODULE Spec2Model ----
(***************************************************************************)
(* Event-driven workflow engine of graphite (grafi): topics with          *)
(* per-consumer cursors, the in-memory event store, the execution queue   *)
(* of EventDrivenWorkflow and the message post-pass of LLMNode.           *)
(***************************************************************************)
EXTENDS Integers, Sequences, FiniteSets, TLC

\* ------------------------------------------------------------------ bounds
MaxCalls == 3            \* calls the owner makes: execute/a_execute on the one workflow, clear_events on its store
MaxInterrupts == 1       \* node failures and stops over one behaviour
NumGraphs == 7           \* workflow configurations the builder is given
NumInputs == 2           \* distinct user inputs
MaxMsgs == 3             \* length of the message list given to the tool-call post-pass
MaxCallId == 2           \* tool call ids
MaxBuilderCalls == 3     \* calls made on one Builder
MaxPriorRuns == 3        \* completed runs already in the store before a fresh run
MaxTimestamp == 2        \* message timestamps
MaxStoredSteps == 2      \* loop iterations an earlier process ran before it left the store
MaxStrayOffset == 1      \* offsets of a stray consume event in a damaged store
MaxDataLen == 2          \* length of the message list an event on the wire carries
MaxClears == 1           \* clear_events calls on the store over one behaviour

\* ------------------------------------------------------- program constants
AGENT_INPUT_TOPIC == "agent_input_topic"
AGENT_OUTPUT_TOPIC == "agent_output_topic"
HUMAN_TOPIC == "human_request_topic"
WORKFLOW_NAME == "EventDrivenWorkflow"
CONVERSATION == 1        \* execution_context.conversation_id of the invocations
NoOffset == 0 - 1        \* cursor of a consumer that has consumed nothing

\* ------------------------------------------------------------- helpers
Last(s) == s[Len(s)]

SeqToSet(s) == {s[i] : i \in 1..Len(s)}

RECURSIVE Flatten(_)
Flatten(ss) == IF ss = <<>> THEN <<>> ELSE Head(ss) \o Flatten(Tail(ss))

Count(s, x) == Cardinality({i \in 1..Len(s) : s[i] = x})

Member(s, x) == \E i \in 1..Len(s) : s[i] = x

IsPrefix(s, t) == Len(s) <= Len(t) /\ SubSeq(t, 1, Len(s)) = s

\* ---------------------------------------------------------------- messages
\* Message: role and content; content is the set of the sources the text was
\* derived from, so that a deterministic node is a function of its input.
NoCallId == 0            \* tool_call_id is None

Msg(role, content) ==
    [role |-> role, content |-> content, tool_call_id |-> NoCallId, tool_calls |-> <<>>,
     tools |-> <<>>]

UserInput(k) == << Msg("user", {"u" \o ToString(k)}) >>

\* a message of an earlier run, with Message.timestamp
TimedMsg(role, content, ts) ==
    [role |-> role, content |-> content, tool_call_id |-> NoCallId, tool_calls |-> <<>>,
     tools |-> <<>>, timestamp |-> ts]

Inputs == {UserInput(k) : k \in 1..NumInputs}

\* ------------------------------------------------------ workflow graphs
\* A subscription expression is an AND/OR over topic names.
TopicExpr(t) == [op |-> "and", args |-> <<t>>]
AndExpr(a, b) == [op |-> "and", args |-> <<a, b>>]
OrExpr(a, b) == [op |-> "or", args |-> <<a, b>>]

NodeDef(name, exprs, pubs) ==
    [name |-> name, subscribed_expressions |-> exprs, publish_to |-> pubs]

\* The nodes handed to Builder.node, in registration order.
GraphNodes(g) ==
    CASE g = 1 ->
           << NodeDef("N", <<TopicExpr(AGENT_INPUT_TOPIC)>>, <<AGENT_OUTPUT_TOPIC>>) >>
      [] g = 2 ->
           << NodeDef("N1", <<TopicExpr(AGENT_INPUT_TOPIC)>>, <<"A", "B">>),
              NodeDef("Y", <<TopicExpr("B")>>, <<"A">>),
              NodeDef("J", <<AndExpr("A", "B")>>, <<AGENT_OUTPUT_TOPIC>>) >>
      [] g = 3 ->
           << NodeDef("M", <<TopicExpr(AGENT_INPUT_TOPIC)>>, <<HUMAN_TOPIC>>),
              NodeDef("H", <<TopicExpr(HUMAN_TOPIC)>>, <<AGENT_OUTPUT_TOPIC>>) >>
      [] g = 5 ->
           << NodeDef("R", <<TopicExpr(AGENT_INPUT_TOPIC)>>, <<"C", "D", AGENT_OUTPUT_TOPIC>>),
              NodeDef("S", <<TopicExpr("C")>>, <<AGENT_OUTPUT_TOPIC>>),
              NodeDef("V", <<TopicExpr("D")>>, <<"E">>),
              NodeDef("T", <<TopicExpr(AGENT_OUTPUT_TOPIC)>>, <<"E">>) >>
      [] g = 6 ->
           << NodeDef("X", <<TopicExpr("A")>>, <<AGENT_OUTPUT_TOPIC>>) >>
      [] g = 7 ->
           << NodeDef("N1", <<TopicExpr(AGENT_INPUT_TOPIC)>>, <<"A", "B">>),
              NodeDef("J", <<AndExpr("A", "B")>>, <<AGENT_OUTPUT_TOPIC>>),
              NodeDef("Y", <<TopicExpr("B")>>, <<"A">>) >>
      [] OTHER ->
           << NodeDef("P", <<TopicExpr(AGENT_INPUT_TOPIC)>>, <<"A">>),
              NodeDef("Q", <<OrExpr("A", AGENT_INPUT_TOPIC)>>, <<AGENT_OUTPUT_TOPIC>>) >>

AllTopics == {AGENT_INPUT_TOPIC, AGENT_OUTPUT_TOPIC, HUMAN_TOPIC, "A", "B", "C", "D", "E"}
AllNodes == {"N", "N1", "Y", "J", "M", "H", "P", "Q", "R", "S", "V", "T", "F", "X"}

\* isinstance(node, LLMFunctionCallNode); every other node is an LLMNode
IsFunctionCallNode(node) == node.name = "F"
IsLLMNode(node) == ~IsFunctionCallNode(node)

\* isinstance(node.command, LLMStreamResponseCommand)
IsStreamNode(node) == node.name = "S"

IsOutputTopic(t) == t = AGENT_OUTPUT_TOPIC
IsHumanRequestTopic(t) == t = HUMAN_TOPIC

extract_topics(expr) == expr.args

NodeNames(g) == [i \in 1..Len(GraphNodes(g)) |-> GraphNodes(g)[i].name]

NodeOf(g, name) ==
    GraphNodes(g)[CHOOSE i \in 1..Len(GraphNodes(g)) : GraphNodes(g)[i].name = name]

\* Node._subscribed_topics: the topics of the node's expressions, first
\* occurrence first.
RECURSIVE Dedup(_)
Dedup(s) ==
    IF s = <<>> THEN <<>>
    ELSE LET r == Dedup(SubSeq(s, 1, Len(s) - 1))
         IN IF Member(r, Last(s)) THEN r ELSE Append(r, Last(s))

SubscribedTopics(node) ==
    Dedup(Flatten([i \in 1..Len(node.subscribed_expressions) |->
                      extract_topics(node.subscribed_expressions[i])]))

\* Builder.build step 1 over the registered nodes: the entries appended to
\* topic_nodes[t], one per (node, expression, topic) in registration order.
RECURSIVE TopicNodesOver(_, _, _)
TopicNodesOver(nodes, t, k) ==
    IF k = 0 THEN <<>>
    ELSE LET node == nodes[k]
             refs == Flatten([i \in 1..Len(node.subscribed_expressions) |->
                                 extract_topics(node.subscribed_expressions[i])])
         IN TopicNodesOver(nodes, t, k - 1)
              \o [i \in 1..Count(refs, t) |-> node.name]

TopicNodesUpTo(g, t, k) == TopicNodesOver(GraphNodes(g), t, k)

topic_nodes(g, t) == TopicNodesUpTo(g, t, Len(GraphNodes(g)))

HasSubscribers(g, t) == topic_nodes(g, t) # <<>>

\* Builder.build step 1 over the registered nodes: the topics given to
\* _add_topic.
AddedTopics(nodes) ==
    UNION {SeqToSet(SubscribedTopics(nodes[i])) \cup SeqToSet(nodes[i].publish_to) :
              i \in 1..Len(nodes)}

Topics(g) == AddedTopics(GraphNodes(g))

\* ------------------------------------------------------------------ builder
\* Builder.__init__: a workflow with no node and no topic
NewBuilder ==
    [nodes |-> <<>>, topics |-> {}, topic_nodes |-> [t \in AllTopics |-> <<>>],
     function_specs |-> [n \in AllNodes |-> <<>>],
     last |-> "none", workflow |-> FALSE, calls |-> 0]

HasNode(b, name) == \E i \in 1..Len(b.nodes) : b.nodes[i].name = name

\* a slip of Builder.node: a node with a registered name replaces the earlier one
Builder_node_overwriting(b, node) ==
    IF HasNode(b, node.name)
    THEN [b EXCEPT !.nodes = [i \in 1..Len(@) |->
                                IF @[i].name = node.name THEN node ELSE @[i]],
                   !.last = "DuplicateNodeError", !.calls = @ + 1]
    ELSE [b EXCEPT !.nodes = Append(@, node), !.last = "node", !.calls = @ + 1]

\* Builder.node; last is how the call ended
Builder_node(b, node) ==
    IF HasNode(b, node.name)
    THEN [b EXCEPT !.last = "DuplicateNodeError", !.calls = @ + 1]
    ELSE [b EXCEPT !.nodes = Append(@, node), !.last = "node", !.calls = @ + 1]

\* a slip of build step 2: both topics are required
MissingEntryOrTerminal(topics) ==
    AGENT_INPUT_TOPIC \notin topics \/ AGENT_OUTPUT_TOPIC \notin topics

\* build step 2: the condition of the ValueError
MissingEntryAndTerminal(topics) ==
    AGENT_INPUT_TOPIC \notin topics /\ AGENT_OUTPUT_TOPIC \notin topics

\* _handle_function_calling_nodes: published_topics_to_nodes[t], a dict
\* comprehension in which a later LLM node publishing to t replaces the
\* earlier one
published_topics_to_nodes(nodes, t) ==
    LET idx == {i \in 1..Len(nodes) : IsLLMNode(nodes[i]) /\ Member(nodes[i].publish_to, t)}
    IN IF idx = {} THEN <<>>
       ELSE << nodes[CHOOSE i \in idx : \A j \in idx : j <= i].name >>

\* _handle_function_calling_nodes: the function specs node n is given, each
\* named after its function node, in the order of the loops
AddedFunctionSpecs(nodes, n) ==
    LET fns == SelectSeq(nodes, IsFunctionCallNode)
    IN Flatten([f \in 1..Len(fns) |->
          Flatten([k \in 1..Len(SubscribedTopics(fns[f])) |->
              IF Member(published_topics_to_nodes(nodes, SubscribedTopics(fns[f])[k]), n)
              THEN << fns[f].name >> ELSE <<>>])])

\* Builder.build; workflow says whether the call returned the workflow
Builder_build(b) ==
    LET b1 == [b EXCEPT !.topics = @ \cup AddedTopics(b.nodes),
                        !.topic_nodes = [t \in AllTopics |->
                            @[t] \o TopicNodesOver(b.nodes, t, Len(b.nodes))]]
    IN IF MissingEntryAndTerminal(b1.topics)
       THEN [b1 EXCEPT !.last = "ValueError", !.calls = @ + 1]
       ELSE [b1 EXCEPT !.function_specs = [n \in AllNodes |->
                                              @[n] \o AddedFunctionSpecs(b.nodes, n)],
                       !.last = "build", !.workflow = TRUE, !.calls = @ + 1]

\* the builder after node(...) for every node of the sequence and build()
RECURSIVE RegisterAll(_, _)
RegisterAll(b, nodes) ==
    IF nodes = <<>> THEN b ELSE RegisterAll(Builder_node(b, Head(nodes)), Tail(nodes))

BuiltWorkflow(g) == Builder_build(RegisterAll(NewBuilder, GraphNodes(g)))

\* ------------------------------------------------------------------ state
VARIABLES
    graph,                \* which workflow the builder built
    topic_events,         \* Topic.topic_events: topic name -> published events
    consumption_offsets,  \* Topic cursors: topic name -> consumer -> last consumed offset
    execution_queue,      \* EventDrivenWorkflow.execution_queue (node names)
    events,               \* EventStoreInMemory.events
    next_event_id,        \* source of unique event ids
    pc,                   \* "idle", "running", "returned", "raised", "stopped"
    execution_context,    \* assistant_request_id of the current invocation
    input,                \* input of the current invocation
    mode,                 \* the entry point the caller uses: "execute" or "a_execute"
    invocations,          \* number of execute/a_execute calls so far
    interrupts,           \* number of failures and stops so far
    node_input_events,    \* get_command_input: list ordered by the event graph (last invocation of a node)
    last_step,            \* what the last step of the engine did
    interrupted,          \* request id -> an invocation of it ended by a failure or stop
    inputs_used,          \* request id -> inputs given to its invocations
    expected_output,      \* request id -> terminal output of its run when nothing interrupts it
    messages_in,          \* tool-call post-pass: the message list before the pass
    messages_out,         \* tool-call post-pass: the message list after the pass
    failed_step,          \* the node whose body raised last and the events it had consumed
    stream_handed_over,   \* a_execute gave the streaming node's live sequence away in this invocation
    builder,              \* EventDrivenWorkflow.Builder and the workflow it holds
    wire,                 \* an event, its to_dict form and what from_dict makes of it
    run_kind,             \* what initial_workflow did in the current invocation: "fresh", "merged", "resumed", "raised"
    awaited,              \* a_execute suspended in async for: the node, what it consumed, its result
    clears                \* clear_events calls on the store: how many, and whether since the invocation began

vars == <<graph, topic_events, consumption_offsets, execution_queue, events,
          next_event_id, pc, execution_context, input, mode, invocations, interrupts,
          node_input_events, last_step, interrupted, inputs_used, expected_output,
          messages_in, messages_out, failed_step, stream_handed_over, builder, wire,
          run_kind, awaited, clears>>

NoFailedStep == [node |-> "", consumed |-> <<>>]

NoAwaited == [node |-> "", consumed |-> <<>>, result |-> <<>>]

NoClears == [total |-> 0, in_run |-> FALSE]

NoWire == [stage |-> "none", event |-> <<>>, dict |-> <<>>, decoded |-> <<>>]

\* the assistant_request_id the caller invokes the workflow with
Requests == {1}

\* The mutable state of one workflow instance and its event store, as a value.
State == [te |-> topic_events, cur |-> consumption_offsets, q |-> execution_queue,
          store |-> events, nid |-> next_event_id]

\* ------------------------------------------------------------------ events
\* is_output: the event is an OutputTopicEvent. The terminal topic is a sink,
\* and a request published to the human-input topic goes out to the human:
\* the workflow pauses until a later invocation brings the reply.
PublishToTopicEvent(id, req, t, offset, publisher, consumed_ids, data) ==
    [event_id |-> id, event_type |-> "PublishToTopic", req |-> req, topic_name |-> t,
     offset |-> offset, name |-> publisher, consumed_event_ids |-> consumed_ids,
     data |-> data, is_output |-> IsOutputTopic(t) \/ IsHumanRequestTopic(t)]

ConsumeFromTopicEvent(id, req, t, offset, consumer, data) ==
    [event_id |-> id, event_type |-> "ConsumeFromTopic", req |-> req, topic_name |-> t,
     offset |-> offset, name |-> consumer, consumed_event_ids |-> <<>>,
     data |-> data, is_output |-> FALSE]

WorkflowRespondEvent(id, req, in, out) ==
    [event_id |-> id, event_type |-> "WorkflowRespond", req |-> req, topic_name |-> "",
     offset |-> NoOffset, name |-> WORKFLOW_NAME, consumed_event_ids |-> <<>>,
     data |-> in \o out, is_output |-> FALSE]

\* recorded by the assistant around a completed run
AssistantRespondEvent(id, conv, req, in, out) ==
    [event_id |-> id, event_type |-> "AssistantRespond", req |-> req,
     conversation_id |-> conv, input_data |-> in, output_data |-> out]

IsAssistantRespond(e) == e.event_type = "AssistantRespond"

IsPublish(e) == e.event_type = "PublishToTopic"
IsConsume(e) == e.event_type = "ConsumeFromTopic"
IsTopicEvent(e) == IsPublish(e) \/ IsConsume(e)

EventIds(evs) == [i \in 1..Len(evs) |-> evs[i].event_id]

\* ------------------------------------------------------------- event store
record_event(store, e) == Append(store, e)

record_events(store, es) == store \o es

clear_events(store) == <<>>

get_agent_events(store, req) == SelectSeq(store, LAMBDA e : e.req = req)

\* the events of the store that carry a conversation id are those of the
\* assistant; the topic events of this workflow belong to CONVERSATION
get_conversation_events(store, conv) ==
    SelectSeq(store, LAMBDA e : IF IsAssistantRespond(e) THEN e.conversation_id = conv
                                ELSE conv = CONVERSATION)

\* ------------------------------------------------------------------ topics
\* Topic.reset, for every topic of the workflow
ResetTopics(st) ==
    [st EXCEPT !.te = [t \in AllTopics |-> <<>>],
               !.cur = [t \in AllTopics |-> [n \in AllNodes |-> NoOffset]]]

NextOffset(evs) == IF evs = <<>> THEN 0 ELSE Last(evs).offset + 1

Unconsumed(st, t, n) == SelectSeq(st.te[t], LAMBDA e : e.offset > st.cur[t][n])

can_consume(st, t, n) == Unconsumed(st, t, n) # <<>>

\* Topic.consume: the cursor moves to the latest offset
consume(st, t, n) ==
    [st |-> IF st.te[t] = <<>> THEN st
            ELSE [st EXCEPT !.cur[t][n] = Last(st.te[t]).offset],
     events |-> Unconsumed(st, t, n)]

\* Topic.restore_topic
restore_topic(st, e) ==
    IF IsPublish(e) THEN [st EXCEPT !.te[e.topic_name] = Append(@, e)]
    ELSE [st EXCEPT !.cur[e.topic_name][e.name] = e.offset]

\* HumanRequestTopic.can_append_user_input
can_append_user_input(st, t, n, e) == e.offset > st.cur[t][n]

\* HumanRequestTopic.append_user_input: the input is merged into the pending
\* event; the topic and the store hold the same event object.
MergeInto(evs, id, data) ==
    [i \in 1..Len(evs) |->
        IF evs[i].event_id = id THEN [evs[i] EXCEPT !.data = @ \o data] ELSE evs[i]]

append_user_input(st, t, e, data) ==
    [st EXCEPT !.te[t] = MergeInto(@, e.event_id, data),
               !.store = MergeInto(@, e.event_id, data)]

\* ------------------------------------------------------------------- nodes
evaluate_subscription(expr, ready) ==
    IF expr.op = "and"
    THEN \A i \in 1..Len(expr.args) : expr.args[i] \in ready
    ELSE \E i \in 1..Len(expr.args) : expr.args[i] \in ready

\* Node.can_execute
can_execute(st, node) ==
    LET ready == {t \in SeqToSet(SubscribedTopics(node)) : can_consume(st, t, node.name)}
    IN \A i \in 1..Len(node.subscribed_expressions) :
          evaluate_subscription(node.subscribed_expressions[i], ready)

\* ------------------------------------------------- LLMNode.get_command_input
\* Tool-call post-pass, step 1: the last message carrying each tool_call_id
HasToolCallMessage(all, id) == \E i \in 1..Len(all) : all[i].tool_call_id = id

ToolCallMessage(all, id) ==
    LET idx == {i \in 1..Len(all) : all[i].tool_call_id = id}
    IN all[CHOOSE i \in idx : \A j \in idx : j <= i]

WithoutToolResults(all) == SelectSeq(all, LAMBDA m : m.tool_call_id = NoCallId)

SyntheticToolMessage(id) ==
    [role |-> "tool", content |-> {}, tool_call_id |-> id, tool_calls |-> <<>>,
     tools |-> <<>>]

\* a slip of the post-pass: the tool result lands at the end of the list
InsertAtEnd(s, p, x) == Append(s, x)

\* list.insert(p + 1, x) on a 0-based list: x lands right after the element at p
InsertAfter(s, p, x) == SubSeq(s, 1, p) \o <<x>> \o SubSeq(s, p + 1, Len(s))

\* the for loop over messages[i].tool_calls
RECURSIVE InsertToolResults(_, _, _, _)
InsertToolResults(msgs, p, k, all) ==
    IF k > Len(msgs[p].tool_calls) THEN msgs
    ELSE LET id == msgs[p].tool_calls[k]
             m == IF HasToolCallMessage(all, id) THEN ToolCallMessage(all, id)
                  ELSE SyntheticToolMessage(id)
         IN InsertToolResults(InsertAfter(msgs, p, m), p, k + 1, all)

\* the while loop over i
RECURSIVE PairToolCalls(_, _, _)
PairToolCalls(msgs, p, all) ==
    IF p > Len(msgs) THEN msgs
    ELSE IF msgs[p].tool_calls # <<>>
         THEN PairToolCalls(InsertToolResults(msgs, p, 1, all),
                            p + Len(msgs[p].tool_calls) + 1, all)
         ELSE PairToolCalls(msgs, p + 1, all)

ToolCallPostPass(all) == PairToolCalls(WithoutToolResults(all), 1, all)

\* the ids of the consume events of the pool
ConsumeIds(pool) == {pool[i].event_id : i \in {k \in 1..Len(pool) : IsConsume(pool[k])}}

\* EventGraph.build_graph: the events a consume event depends on are the
\* events consumed to produce the publish event it read.
UpstreamIds(pool, known, id) ==
    LET cs == {i \in 1..Len(pool) : pool[i].event_id = id /\ IsConsume(pool[i])}
        ps == {j \in 1..Len(pool) :
                 /\ IsPublish(pool[j])
                 /\ \E i \in cs : /\ pool[j].topic_name = pool[i].topic_name
                                  /\ pool[j].offset = pool[i].offset}
    IN UNION {SeqToSet(pool[j].consumed_event_ids) : j \in ps} \cap known

\* the built graph: every event reached from the node input, each with the
\* ids it depends on
RECURSIVE GraphClosure(_, _, _, _)
GraphClosure(pool, known, frontier, edges) ==
    LET new == frontier \ {e[1] : e \in edges}
        added == {<<id, UpstreamIds(pool, known, id)>> : id \in new}
    IN IF new = {} THEN edges
       ELSE GraphClosure(pool, known, UNION {e[2] : e \in added}, edges \cup added)

Upstream(edges, id) == (CHOOSE e \in edges : e[1] = id)[2]

EventById(pool, id) == pool[CHOOSE i \in 1..Len(pool) : pool[i].event_id = id]

\* EventGraph.get_topology_sorted_events: an event follows everything it
\* depends on; among events free to go, the lower offset (then the older
\* event) goes first.
Before(a, b) == a.offset < b.offset \/ (a.offset = b.offset /\ a.event_id <= b.event_id)

RECURSIVE TopologySorted(_, _, _, _)
TopologySorted(pool, edges, remaining, done) ==
    IF remaining = {} THEN done
    ELSE LET free == {id \in remaining : Upstream(edges, id) \cap remaining = {}}
             pick == CHOOSE x \in free :
                        \A y \in free : Before(EventById(pool, x), EventById(pool, y))
         IN TopologySorted(pool, edges, remaining \ {pick},
                           Append(done, EventById(pool, pick)))

\* node_input_events of get_command_input
get_topology_sorted_events(store, req, node_input) ==
    LET pool == SelectSeq(get_agent_events(store, req), IsTopicEvent) \o node_input
        edges == GraphClosure(pool, ConsumeIds(pool), SeqToSet(EventIds(node_input)), {})
    IN TopologySorted(pool, edges, {e[1] : e \in edges}, <<>>)

RECURSIVE Reverse(_)
Reverse(s) == IF s = <<>> THEN <<>> ELSE Append(Reverse(Tail(s)), Head(s))

\* a slip of get_command_input: the sorted events are taken newest first
NodeInputEventsReversed(store, req, node_input) ==
    Reverse(get_topology_sorted_events(store, req, node_input))

NodeInputEvents(store, req, node_input) ==
    get_topology_sorted_events(store, req, node_input)

\* how a call ended: it returned, or it raised the named exception
NoError == "none"
AttributeError == "AttributeError"

\* the data of an event is the undrained sequence of a streaming node, which
\* is no Message: reading msg.tool_call_id of it raises
IsLiveSequence(m) == m.role = "live_sequence"

\* messages of get_command_input: the data of the ordered events, flattened
CommandMessages(ordered) == Flatten([i \in 1..Len(ordered) |-> ordered[i].data])

\* the event and the place in its data of the message at place j of the
\* flattened data of the ordered events
RECURSIVE SourceOf(_, _, _)
SourceOf(ordered, i, j) ==
    IF j <= Len(ordered[i].data) THEN [event |-> ordered[i], k |-> j]
    ELSE SourceOf(ordered, i + 1, j - Len(ordered[i].data))

\* Events hold Message objects, not copies. The data of a consume event is
\* the data of the publish event it was read from, and one node result is
\* the data of every publish event of its batch: event x holds the Message
\* objects of event c.
SharesMessages(pool, c, x) ==
    /\ IsTopicEvent(x)
    /\ x.req = c.req
    /\ \/ x.topic_name = c.topic_name /\ x.offset = c.offset
       \/ \E p \in pool, b \in pool :
             /\ IsPublish(p) /\ p.req = c.req
             /\ p.topic_name = c.topic_name /\ p.offset = c.offset
             /\ IsPublish(b) /\ b.req = c.req
             /\ b.name = p.name
             /\ b.consumed_event_ids = p.consumed_event_ids
             /\ p.consumed_event_ids # <<>>
             /\ x.topic_name = b.topic_name /\ x.offset = b.offset

\* the events a workflow state holds, in its topics and in the store
EventPool(st) == SeqToSet(st.store) \cup UNION {SeqToSet(st.te[t]) : t \in DOMAIN st.te}

\* places i and j of the flattened list hold one Message object: the same
\* place in the data of two events that hold the same objects
SameObject(pool, ordered, i, j) ==
    /\ SourceOf(ordered, 1, i).k = SourceOf(ordered, 1, j).k
    /\ SharesMessages(pool, SourceOf(ordered, 1, i).event, SourceOf(ordered, 1, j).event)

\* the Message object at each place of the flattened list, named after the
\* first place of the list that holds it
MessageObjects(pool, ordered) ==
    [j \in 1..Len(CommandMessages(ordered)) |->
        CHOOSE i \in 1..j :
            /\ SameObject(pool, ordered, i, j)
            /\ \A h \in 1..(i - 1) : ~SameObject(pool, ordered, h, j)]

\* the messages, each with the object it is (src); a message the post-pass
\* makes (Message(**message_args)) is a new object and has none
Tagged(all, objs) ==
    [j \in 1..Len(all) |->
        [role |-> all[j].role, content |-> all[j].content,
         tool_call_id |-> all[j].tool_call_id, tool_calls |-> all[j].tool_calls,
         tools |-> all[j].tools, src |-> objs[j]]]

\* the messages as values
Untagged(messages) ==
    [j \in 1..Len(messages) |->
        [role |-> messages[j].role, content |-> messages[j].content,
         tool_call_id |-> messages[j].tool_call_id, tool_calls |-> messages[j].tool_calls,
         tools |-> messages[j].tools]]

\* FunctionSpec.to_openai_tool; a function spec is named after its function node
to_openai_tool(spec) == [type |-> "function", function |-> spec]

\* Attach function specs to the last message: last_message.tools = ... is an
\* assignment to the object, seen at every place of the list that holds it
AttachFunctionSpecs(messages, specs) ==
    IF specs # <<>> /\ messages # <<>>
    THEN [i \in 1..Len(messages) |->
            IF \/ i = Len(messages)
               \/ /\ "src" \in DOMAIN messages[i]
                  /\ "src" \in DOMAIN Last(messages)
                  /\ messages[i].src = Last(messages).src
            THEN [messages[i] EXCEPT !.tools =
                                        [k \in 1..Len(specs) |-> to_openai_tool(specs[k])]]
            ELSE messages[i]]
    ELSE messages

\* LLMNode.get_command_input of a node holding the function specs, from the
\* flattened messages all, objs[j] naming the object at place j: error says
\* how the call ended, messages is the list it returned
CommandInput(specs, all, objs) ==
    IF \E j \in 1..Len(all) : IsLiveSequence(all[j])
    THEN [error |-> AttributeError, messages |-> <<>>]
    ELSE [error |-> NoError,
          messages |-> Untagged(AttachFunctionSpecs(ToolCallPostPass(Tagged(all, objs)),
                                                    specs))]

get_command_input(specs, st, req, node_input) ==
    CommandInput(specs, CommandMessages(NodeInputEvents(st.store, req, node_input)),
                 MessageObjects(EventPool(st) \cup SeqToSet(node_input),
                                NodeInputEvents(st.store, req, node_input)))

\* messages[-1] of get_command_input: the object that ends the returned
\* list, 0 when the list is empty or ends with a message the post-pass made
LastMessageSource(all, objs) ==
    LET out == ToolCallPostPass(Tagged(all, objs))
    IN IF out = <<>> THEN 0
       ELSE IF "src" \in DOMAIN Last(out) THEN Last(out).src ELSE 0

\* last_message.tools = ... seen through every event that holds the object
SetTools(evs, pool, src, tools) ==
    [i \in 1..Len(evs) |->
        IF SharesMessages(pool, src.event, evs[i]) /\ src.k <= Len(evs[i].data)
        THEN [evs[i] EXCEPT !.data[src.k].tools = tools]
        ELSE evs[i]]

\* last_message.tools = ... when the last message is the object at place j
\* of the flattened data of the ordered events: the state and the consumed
\* events after the assignment
AttachToolsAt(specs, st, node_input, ordered, j) ==
    IF specs = <<>> \/ j = 0 THEN [st |-> st, consumed |-> node_input]
    ELSE LET src == SourceOf(ordered, 1, j)
             tools == [k \in 1..Len(specs) |-> to_openai_tool(specs[k])]
             pool == EventPool(st) \cup SeqToSet(node_input)
         IN [st |-> [st EXCEPT !.te = [t \in DOMAIN st.te |->
                                         SetTools(st.te[t], pool, src, tools)],
                               !.store = SetTools(st.store, pool, src, tools)],
             consumed |-> SetTools(node_input, pool, src, tools)]

\* get_command_input, the effect of its last step on the objects the
\* workflow holds: the state and the consumed events after the call
AttachToolsInPlace(specs, st, req, node_input) ==
    IF specs = <<>> THEN [st |-> st, consumed |-> node_input]
    ELSE AttachToolsAt(specs, st, node_input, NodeInputEvents(st.store, req, node_input),
             LastMessageSource(
                 CommandMessages(NodeInputEvents(st.store, req, node_input)),
                 MessageObjects(EventPool(st) \cup SeqToSet(node_input),
                                NodeInputEvents(st.store, req, node_input))))

\* LLMResponseCommand.execute of a deterministic command: one answer derived
\* from everything in the command input
CommandExecute(node, ci) ==
    IF ci.error # NoError THEN [error |-> ci.error, messages |-> <<>>]
    ELSE [error |-> NoError,
          messages |-> << Msg("assistant",
                              UNION {ci.messages[i].content : i \in 1..Len(ci.messages)}
                                 \cup {node.name}) >>]

\* LLMNode.execute: the command is given what get_command_input returns
NodeExecute(node, specs, st, req, node_input) ==
    CommandExecute(node, get_command_input(specs, st, req, node_input))

\* ------------------------------------------------------ workflow engine
\* a slip of on_event: every subscriber is queued, ready or not
on_event_without_can_execute(g, st, e) ==
    IF ~IsPublish(e) THEN st.q
    ELSE IF e.is_output THEN st.q
    ELSE IF ~HasSubscribers(g, e.topic_name) THEN st.q
    ELSE st.q \o topic_nodes(g, e.topic_name)

\* a slip of on_event: an OutputTopicEvent is handled like any publish
on_event_for_output_too(g, st, e) ==
    IF ~IsPublish(e) THEN st.q
    ELSE IF ~HasSubscribers(g, e.topic_name) THEN st.q
    ELSE st.q \o SelectSeq(topic_nodes(g, e.topic_name),
                           LAMBDA n : can_execute(st, NodeOf(g, n)))

\* EventDrivenWorkflow.on_event: the queue after the handler ran
on_event(g, st, e) ==
    IF ~IsPublish(e) THEN st.q
    ELSE IF e.is_output THEN st.q
    ELSE IF ~HasSubscribers(g, e.topic_name) THEN st.q
    ELSE st.q \o SelectSeq(topic_nodes(g, e.topic_name),
                           LAMBDA n : can_execute(st, NodeOf(g, n)))

\* Topic publish policy (Topic.condition): topic C is an optional branch that
\* takes only data derived from the first user input
Condition(t, data) ==
    t = "C" => \E i \in 1..Len(data) : "u1" \in data[i].content

\* Topic.publish_data: <<>> for a declined publish
publish_data(g, st, req, t, publisher, data, consumed_events) ==
    IF ~Condition(t, data) THEN [st |-> st, event |-> <<>>]
    ELSE LET e == PublishToTopicEvent(st.nid, req, t, NextOffset(st.te[t]), publisher,
                                      EventIds(consumed_events), data)
             st1 == [st EXCEPT !.te[t] = Append(@, e), !.nid = @ + 1]
         IN [st |-> [st1 EXCEPT !.q = on_event(g, st1, e)], event |-> <<e>>]

\* a slip of _publish_events: a published event is put in front of the list
RECURSIVE PublishLoopPrepending(_, _, _, _, _, _, _)
PublishLoopPrepending(g, st, req, node, result, consumed_events, k) ==
    IF k > Len(node.publish_to) THEN [st |-> st, published |-> <<>>]
    ELSE LET r == publish_data(g, st, req, node.publish_to[k], node.name, result,
                               consumed_events)
             rest == PublishLoopPrepending(g, r.st, req, node, result, consumed_events, k + 1)
         IN [st |-> rest.st, published |-> rest.published \o r.event]

\* _publish_events: the loop over node.publish_to
RECURSIVE PublishLoop(_, _, _, _, _, _, _)
PublishLoop(g, st, req, node, result, consumed_events, k) ==
    IF k > Len(node.publish_to) THEN [st |-> st, published |-> <<>>]
    ELSE LET r == publish_data(g, st, req, node.publish_to[k], node.name, result,
                               consumed_events)
             rest == PublishLoop(g, r.st, req, node, result, consumed_events, k + 1)
         IN [st |-> rest.st, published |-> r.event \o rest.published]

\* a slip of _publish_events: the consumed events are not recorded
publish_events_without_consumed(g, st, req, node, result, consumed_events) ==
    LET r == PublishLoop(g, st, req, node, result, consumed_events, 1)
    IN [r.st EXCEPT !.store = record_events(@, r.published)]

publish_events(g, st, req, node, result, consumed_events) ==
    LET r == PublishLoop(g, st, req, node, result, consumed_events, 1)
    IN [r.st EXCEPT !.store = record_events(@, consumed_events \o r.published)]

\* get_node_input: the loop over the node's subscribed topics
RECURSIVE GetNodeInputLoop(_, _, _, _)
GetNodeInputLoop(st, node, k, acc) ==
    IF k > Len(SubscribedTopics(node)) THEN [st |-> st, events |-> acc]
    ELSE LET t == SubscribedTopics(node)[k]
         IN IF can_consume(st, t, node.name)
            THEN LET c == consume(st, t, node.name)
                     ces == [i \in 1..Len(c.events) |->
                               ConsumeFromTopicEvent(st.nid + i - 1, c.events[i].req,
                                   c.events[i].topic_name, c.events[i].offset,
                                   node.name, c.events[i].data)]
                 IN GetNodeInputLoop([c.st EXCEPT !.nid = @ + Len(ces)], node, k + 1,
                                     acc \o ces)
            ELSE GetNodeInputLoop(st, node, k + 1, acc)

\* a slip of get_node_input: the topic's events are read past the cursor
get_node_input_ignoring_cursor(st, node) ==
    LET all == Flatten([k \in 1..Len(SubscribedTopics(node)) |->
                           st.te[SubscribedTopics(node)[k]]])
    IN [st |-> [st EXCEPT !.nid = @ + Len(all)],
        events |-> [i \in 1..Len(all) |->
                      ConsumeFromTopicEvent(st.nid + i - 1, all[i].req, all[i].topic_name,
                                            all[i].offset, node.name, all[i].data)]]

get_node_input(st, node) == GetNodeInputLoop(st, node, 1, <<>>)

\* {event.event_id: event for ...}.values(): one entry per event id, at the
\* place of the id's first occurrence, holding its last occurrence
DictValuesById(evs) ==
    LET firsts == SelectSeq([i \in 1..Len(evs) |-> i],
                            LAMBDA i : \A j \in 1..(i - 1) : evs[j].event_id # evs[i].event_id)
    IN [k \in 1..Len(firsts) |->
          evs[CHOOSE i \in 1..Len(evs) :
                 /\ evs[i].event_id = evs[firsts[k]].event_id
                 /\ \A j \in (i + 1)..Len(evs) : evs[j].event_id # evs[i].event_id]]

\* sorted(all_messages, key=timestamp): stable
InsertByTimestamp(sorted, m) ==
    LET k == Cardinality({i \in 1..Len(sorted) : sorted[i].timestamp <= m.timestamp})
    IN SubSeq(sorted, 1, k) \o <<m>> \o SubSeq(sorted, k + 1, Len(sorted))

RECURSIVE SortedByTimestamp(_)
SortedByTimestamp(msgs) ==
    IF msgs = <<>> THEN <<>>
    ELSE InsertByTimestamp(SortedByTimestamp(SubSeq(msgs, 1, Len(msgs) - 1)), Last(msgs))

\* all_messages of initial_workflow
AllConversationMessages(store, conv) ==
    LET ares == DictValuesById(SelectSeq(get_conversation_events(store, conv),
                                         IsAssistantRespond))
    IN Flatten([i \in 1..Len(ares) |-> ares[i].input_data \o ares[i].output_data])

\* a slip of initial_workflow: the messages are left in event order
ConversationMessagesUnsorted(store) == AllConversationMessages(store, CONVERSATION)

\* initial_workflow, fresh run: messages of the conversation's earlier
\* AssistantRespondEvents, in timestamp order
ConversationMessages(store) == SortedByTimestamp(AllConversationMessages(store, CONVERSATION))

StoredTopicEvents(store, req) == SelectSeq(get_agent_events(store, req), IsTopicEvent)

\* a slip of initial_workflow: the stored events are not put back
RestoreNothing(st, evs) == st

\* initial_workflow, resumption: for event in events: restore_topic(event)
RECURSIVE RestoreTopics(_, _)
RestoreTopics(st, evs) ==
    IF evs = <<>> THEN st ELSE RestoreTopics(restore_topic(st, Head(evs)), Tail(evs))

\* a slip of the resumption pass: the subscriber's readiness is not asked
RECURSIVE ResumeSubscribersWithoutCanExecute(_, _, _, _, _)
ResumeSubscribersWithoutCanExecute(g, st, pe, inp, k) ==
    LET t == pe.topic_name
    IN IF k > Len(topic_nodes(g, t)) THEN st
       ELSE LET n == topic_nodes(g, t)[k]
            IN IF can_consume(st, t, n)
               THEN LET st1 == IF IsHumanRequestTopic(t) /\ can_append_user_input(st, t, n, pe)
                               THEN LET m == append_user_input(st, t, pe, inp)
                                    IN [m EXCEPT !.store =
                                          record_event(@, EventById(m.te[t], pe.event_id))]
                               ELSE st
                    IN ResumeSubscribersWithoutCanExecute(g, [st1 EXCEPT !.q = Append(@, n)],
                                                          pe, inp, k + 1)
               ELSE ResumeSubscribersWithoutCanExecute(g, st, pe, inp, k + 1)

\* initial_workflow, resumption: the loop over the subscribers of one stored
\* publish event
RECURSIVE ResumeSubscribers(_, _, _, _, _)
ResumeSubscribers(g, st, pe, inp, k) ==
    LET t == pe.topic_name
    IN IF k > Len(topic_nodes(g, t)) THEN st
       ELSE LET n == topic_nodes(g, t)[k]
            IN IF can_consume(st, t, n) /\ can_execute(st, NodeOf(g, n))
               THEN LET st1 == IF IsHumanRequestTopic(t) /\ can_append_user_input(st, t, n, pe)
                               THEN LET m == append_user_input(st, t, pe, inp)
                                    IN [m EXCEPT !.store =
                                          record_event(@, EventById(m.te[t], pe.event_id))]
                               ELSE st
                    IN ResumeSubscribers(g, [st1 EXCEPT !.q = Append(@, n)], pe, inp, k + 1)
               ELSE ResumeSubscribers(g, st, pe, inp, k + 1)

\* initial_workflow, resumption: the loop over the stored publish events
RECURSIVE ResumeScan(_, _, _, _)
ResumeScan(g, st, pubs, inp) ==
    IF pubs = <<>> THEN st
    ELSE IF ~HasSubscribers(g, Head(pubs).topic_name)
         THEN ResumeScan(g, st, Tail(pubs), inp)
         ELSE ResumeScan(g, ResumeSubscribers(g, st, Head(pubs), inp, 1), Tail(pubs), inp)

\* initial_workflow, fresh run: self.topics.get(AGENT_INPUT_TOPIC) is None and
\* input_topic.publish_data raises
InitialWorkflowRaises(topics, store, req) ==
    StoredTopicEvents(store, req) = <<>> /\ AGENT_INPUT_TOPIC \notin topics

\* a slip of initial_workflow: the input is left out of what is published
\* and merged
initial_workflow_without_input(g, st, req, inp) ==
    LET st0 == ResetTopics(st)
        evs == StoredTopicEvents(st.store, req)
    IN IF InitialWorkflowRaises(Topics(g), st.store, req) THEN st0
       ELSE IF evs = <<>>
       THEN LET r == publish_data(g, st0, req, AGENT_INPUT_TOPIC, WORKFLOW_NAME,
                                  ConversationMessages(st.store), <<>>)
            IN [r.st EXCEPT !.store = record_event(@, r.event[1])]
       ELSE ResumeScan(g, RestoreTopics(st0, evs), SelectSeq(evs, IsPublish), <<>>)

initial_workflow(g, st, req, inp) ==
    LET st0 == ResetTopics(st)
        evs == StoredTopicEvents(st.store, req)
    IN IF InitialWorkflowRaises(Topics(g), st.store, req) THEN st0
       ELSE IF evs = <<>>
       THEN LET r == publish_data(g, st0, req, AGENT_INPUT_TOPIC, WORKFLOW_NAME,
                                  ConversationMessages(st.store) \o inp, <<>>)
            IN [r.st EXCEPT !.store = record_event(@, r.event[1])]
       ELSE ResumeScan(g, RestoreTopics(st0, evs), SelectSeq(evs, IsPublish), inp)

\* a slip of the loop condition: the loop leaves the last queued node
LoopContinuesOffByOne(q) == Len(q) > 1

\* while self.execution_queue
LoopContinues(q) == q # <<>>

\* the function specs the built workflow's node holds
function_specs(g, n) == BuiltWorkflow(g).function_specs[n]

\* a_execute, the streaming node: node.a_execute(...) is not drained; the
\* result is the live sequence itself, which has not run yet
LiveSequence(node, store, req, node_input) ==
    LET all == CommandMessages(NodeInputEvents(store, req, node_input))
    IN << Msg("live_sequence", UNION {all[i].content : i \in 1..Len(all)} \cup {node.name}) >>

\* a_execute hands the streaming node's output over undrained
HandsOver(node) == mode = "a_execute" /\ IsStreamNode(node)

\* a_execute drains the sequence of every other node: async for item in ...
Drains(node) == mode = "a_execute" /\ ~IsStreamNode(node)

\* the iteration when the node body has been called on the input r that
\* get_node_input gathered: x is what the call returned or raised, m the state
\* and the consumed events after get_command_input set tools on its last
\* message, ordered the event list of get_command_input
NodeIterationCalled(node, r, x, m, ordered) ==
    IF x.error # NoError
    THEN [st |-> r.st, node |-> node.name, consumed |-> r.events, ordered |-> <<>>,
          handed_over |-> FALSE, error |-> x.error, awaits |-> FALSE, result |-> <<>>]
    ELSE [st |-> m.st, node |-> node.name, consumed |-> m.consumed, ordered |-> ordered,
          handed_over |-> FALSE, error |-> NoError, awaits |-> Drains(node),
          result |-> x.messages]

\* the iteration once get_node_input has returned r: nothing gathered, the
\* node is skipped; the streaming node of a_execute is handed over; every
\* other node is called
NodeIterationWithInput(g, req, node, r) ==
    IF r.events = <<>>
    THEN [st |-> r.st, node |-> node.name, consumed |-> <<>>, ordered |-> <<>>,
          handed_over |-> FALSE, error |-> NoError, awaits |-> FALSE, result |-> <<>>]
    ELSE IF HandsOver(node)
    THEN [st |-> r.st, node |-> node.name, consumed |-> r.events, ordered |-> <<>>,
          handed_over |-> TRUE, error |-> NoError, awaits |-> FALSE,
          result |-> LiveSequence(node, r.st.store, req, r.events)]
    ELSE NodeIterationCalled(node, r,
             NodeExecute(node, function_specs(g, node.name), r.st, req, r.events),
             AttachToolsInPlace(function_specs(g, node.name), r.st, req, r.events),
             NodeInputEvents(r.st.store, req, r.events))

\* an iteration of the loop from get_node_input up to the node's result,
\* the node already taken from the queue. error: the node body raised;
\* awaits: a_execute is suspended in async for until the node has produced
\* its items; result: what _publish_events will be given
NodeIterationStart(g, st, req, node) ==
    NodeIterationWithInput(g, req, node, get_node_input(st, node))

\* the rest of the iteration: _publish_events with the node's result
NodeIterationEnd(g, st, req, node, result, consumed) ==
    publish_events(g, st, req, node, result, consumed)

\* the iteration that began as s, to its end
NodeIterationFinished(g, req, node, s) ==
    IF s.consumed = <<>> \/ s.error # NoError THEN s
    ELSE [s EXCEPT !.st = NodeIterationEnd(g, s.st, req, node, s.result, s.consumed)]

\* the iteration for a node already taken from the queue
NodeIteration(g, st, req, node) ==
    NodeIterationFinished(g, req, node, NodeIterationStart(g, st, req, node))

\* a slip of the loop: the node taken is the one queued last
LoopBodyLifo(g, st, req) ==
    NodeIteration(g, [st EXCEPT !.q = SubSeq(@, 1, Len(@) - 1)], req, NodeOf(g, Last(st.q)))

\* a slip of the loop: the node body is called whatever get_node_input gathered
AlwaysExecuting(g, req, node, r, x) ==
    [st |-> publish_events(g, r.st, req, node, x.messages, r.events),
     node |-> node.name, consumed |-> r.events,
     ordered |-> NodeInputEvents(r.st.store, req, r.events),
     handed_over |-> HandsOver(node), error |-> NoError, awaits |-> FALSE,
     result |-> x.messages]

AlwaysExecutingWithInput(g, req, node, r) ==
    AlwaysExecuting(g, req, node, r,
        NodeExecute(node, function_specs(g, node.name), r.st, req, r.events))

LoopBodyAlwaysExecuting(g, st, req) ==
    AlwaysExecutingWithInput(g, req, NodeOf(g, Head(st.q)),
        get_node_input([st EXCEPT !.q = Tail(@)], NodeOf(g, Head(st.q))))

\* one iteration of the loop of execute / a_execute, from the pop to the
\* end of _publish_events
LoopBody(g, st, req) ==
    NodeIteration(g, [st EXCEPT !.q = Tail(@)], req, NodeOf(g, Head(st.q)))

\* the iteration of a_execute up to the point where it waits for the node
LoopBodyStart(g, st, req) ==
    NodeIterationStart(g, [st EXCEPT !.q = Tail(@)], req, NodeOf(g, Head(st.q)))

\* the loop run until it ends or a node body raises
RECURSIVE RunToCompletion(_, _, _)
RunToCompletion(g, st, req) ==
    IF LoopContinues(st.q)
    THEN LET r == LoopBody(g, st, req)
         IN IF r.error # NoError THEN r.st ELSE RunToCompletion(g, r.st, req)
    ELSE st

\* the data published to the terminal topic for a request, in store order
TerminalOutput(store, req) ==
    LET outs == SelectSeq(get_agent_events(store, req),
                          LAMBDA e : IsPublish(e) /\ IsOutputTopic(e.topic_name))
    IN [i \in 1..Len(outs) |-> outs[i].data]

\* ----------------------------------------------------------------- actions
SetState(st) ==
    /\ topic_events' = st.te
    /\ consumption_offsets' = st.cur
    /\ execution_queue' = st.q
    /\ events' = st.store
    /\ next_event_id' = st.nid

Init ==
    /\ graph \in 1..NumGraphs
    /\ topic_events = [t \in AllTopics |-> <<>>]
    /\ consumption_offsets = [t \in AllTopics |-> [n \in AllNodes |-> NoOffset]]
    /\ execution_queue = <<>>
    /\ events = <<>>
    /\ next_event_id = 1
    /\ pc = "idle"
    /\ execution_context = 0
    /\ input = <<>>
    /\ mode \in {"execute", "a_execute"}
    /\ invocations = 0
    /\ interrupts = 0
    /\ node_input_events = <<>>
    /\ last_step = [op |-> "none", node |-> "", consumed |-> <<>>, resumed |-> FALSE]
    /\ interrupted = [r \in Requests |-> FALSE]
    /\ inputs_used = [r \in Requests |-> {}]
    /\ expected_output = [r \in Requests |-> <<>>]
    /\ messages_in = <<>>
    /\ messages_out = <<>>
    /\ failed_step = NoFailedStep
    /\ stream_handed_over = FALSE
    /\ builder = BuiltWorkflow(graph)
    /\ wire = NoWire
    /\ run_kind = "none"
    /\ awaited = NoAwaited
    /\ clears = NoClears

\* what initial_workflow did: it raised, it published the input to the entry
\* topic, it merged the input into a pending human request (the one place
\* where a resumption records an event, line 385), or it only restored
RunKind(raises, fresh, before, after) ==
    IF raises THEN "raised"
    ELSE IF fresh THEN "fresh"
    ELSE IF Len(after) > Len(before) THEN "merged"
    ELSE "resumed"

\* record_workflow_execution, once the wrapped call has returned: the store
\* with the workflow-level respond event of the invocation
record_workflow_execution(store, id, req, inp) ==
    record_event(store, WorkflowRespondEvent(id, req, inp, Flatten(TerminalOutput(store, req))))

\* execute / a_execute up to the loop: initial_workflow; the caller drives
\* the workflow through one of the two entry points, one invocation at a time
Execute(req, inp) ==
    /\ pc \notin {"running", "awaiting"}
    /\ invocations + clears.total < MaxCalls
    /\ LET fresh == StoredTopicEvents(events, req) = <<>>
           raises == InitialWorkflowRaises(builder.topics, events, req)
           st == initial_workflow(graph, State, req, inp)
       IN /\ SetState(st)
          /\ last_step' = [op |-> IF raises THEN "initial_workflow_raised"
                                  ELSE "initial_workflow",
                           node |-> "", consumed |-> <<>>, resumed |-> ~fresh]
          /\ pc' = IF raises THEN "raised" ELSE "running"
          /\ run_kind' = RunKind(raises, fresh, events, st.store)
          /\ expected_output' =
                IF fresh
                THEN [expected_output EXCEPT
                        ![req] = TerminalOutput(RunToCompletion(graph, st, req).store, req)]
                ELSE expected_output
    /\ execution_context' = req
    /\ input' = inp
    /\ invocations' = invocations + 1
    /\ inputs_used' = [inputs_used EXCEPT ![req] = @ \cup {inp}]
    /\ stream_handed_over' = FALSE
    /\ clears' = [clears EXCEPT !.in_run = FALSE]
    /\ UNCHANGED <<graph, mode, interrupts, node_input_events, interrupted, messages_in,
                   messages_out, failed_step, builder, wire, awaited>>

\* one iteration of the loop that runs without waiting: pop, get_node_input,
\* node.execute, _publish_events; every iteration of execute, and in
\* a_execute the iterations that find no input, hand the live sequence over
\* or raise in get_command_input
LoopStep ==
    /\ pc = "running"
    /\ LoopContinues(execution_queue)
    /\ \E r \in {LoopBody(graph, State, execution_context)} :
          /\ ~r.awaits
          /\ SetState(r.st)
          /\ last_step' = [op |-> IF r.error # NoError THEN "raise" ELSE "step",
                           node |-> r.node, consumed |-> r.consumed, resumed |-> FALSE]
          /\ pc' = IF r.error # NoError THEN "raised" ELSE "running"
          /\ interrupted' = IF r.error # NoError
                            THEN [interrupted EXCEPT ![execution_context] = TRUE]
                            ELSE interrupted
          /\ node_input_events' = IF r.ordered # <<>> THEN r.ordered ELSE node_input_events
          /\ failed_step' = IF r.error # NoError
                            THEN [node |-> r.node, consumed |-> r.consumed]
                            ELSE IF r.consumed # <<>> /\ r.node = failed_step.node
                            THEN NoFailedStep ELSE failed_step
          /\ stream_handed_over' = (stream_handed_over \/ r.handed_over)
    /\ UNCHANGED <<graph, execution_context, input, mode, invocations, interrupts,
                   inputs_used, expected_output, messages_in, messages_out,
                   builder, wire, run_kind, awaited, clears>>

\* a_execute, an iteration that drains the node: pop, get_node_input and the
\* node's first item asked for; a_execute waits in async for, and whatever
\* else runs on the event loop sees the workflow as it is now
LoopAwait ==
    /\ pc = "running"
    /\ LoopContinues(execution_queue)
    /\ \E r \in {LoopBodyStart(graph, State, execution_context)} :
          /\ r.awaits
          /\ SetState(r.st)
          /\ last_step' = [op |-> "await", node |-> r.node, consumed |-> r.consumed,
                           resumed |-> FALSE]
          /\ node_input_events' = r.ordered
          /\ failed_step' = IF r.node = failed_step.node THEN NoFailedStep ELSE failed_step
          /\ awaited' = [node |-> r.node, consumed |-> r.consumed, result |-> r.result]
    /\ pc' = "awaiting"
    /\ UNCHANGED <<graph, execution_context, input, mode, invocations, interrupts,
                   interrupted, inputs_used, expected_output, messages_in, messages_out,
                   stream_handed_over, builder, wire, run_kind, clears>>

\* a_execute, the node has produced its items: _publish_events, and the loop
\* goes on
LoopResume ==
    /\ pc = "awaiting"
    /\ SetState(NodeIterationEnd(graph, State, execution_context,
                                 NodeOf(graph, awaited.node), awaited.result,
                                 awaited.consumed))
    /\ last_step' = [op |-> "publish", node |-> awaited.node,
                     consumed |-> awaited.consumed, resumed |-> FALSE]
    /\ awaited' = NoAwaited
    /\ pc' = "running"
    /\ UNCHANGED <<graph, execution_context, input, mode, invocations, interrupts,
                   node_input_events, interrupted, inputs_used, expected_output,
                   messages_in, messages_out, failed_step, stream_handed_over, builder,
                   wire, run_kind, clears>>

\* one iteration of the loop in which the command of the node raises, once
\* get_command_input has returned: the failure leaves execute after
\* get_node_input, before _publish_events. The streaming node of a_execute
\* is not run in the loop and cannot raise there.
NodeRaises ==
    /\ pc = "running"
    /\ LoopContinues(execution_queue)
    /\ interrupts < MaxInterrupts
    /\ \E r \in {LoopBodyStart(graph, State, execution_context)} :
          /\ r.consumed # <<>>
          /\ ~r.handed_over
          /\ r.error = NoError
          /\ SetState(r.st)
          /\ last_step' = [op |-> "raise", node |-> r.node, consumed |-> r.consumed,
                           resumed |-> FALSE]
          /\ failed_step' = [node |-> r.node, consumed |-> r.consumed]
    /\ pc' = "raised"
    /\ interrupts' = interrupts + 1
    /\ interrupted' = [interrupted EXCEPT ![execution_context] = TRUE]
    /\ UNCHANGED <<graph, execution_context, input, mode, invocations, node_input_events,
                   inputs_used, expected_output, messages_in, messages_out,
                   stream_handed_over, builder, wire, run_kind, awaited, clears>>

\* a_execute, the node raises while it is awaited: the failure leaves
\* a_execute at async for, before _publish_events
AwaitedNodeRaises ==
    /\ pc = "awaiting"
    /\ interrupts < MaxInterrupts
    /\ last_step' = [op |-> "raise", node |-> awaited.node, consumed |-> awaited.consumed,
                     resumed |-> FALSE]
    /\ failed_step' = [node |-> awaited.node, consumed |-> awaited.consumed]
    /\ awaited' = NoAwaited
    /\ pc' = "raised"
    /\ interrupts' = interrupts + 1
    /\ interrupted' = [interrupted EXCEPT ![execution_context] = TRUE]
    /\ UNCHANGED <<graph, topic_events, consumption_offsets, execution_queue, events,
                   next_event_id, execution_context, input, mode, invocations,
                   node_input_events, inputs_used, expected_output, messages_in,
                   messages_out, stream_handed_over, builder, wire, run_kind, clears>>

\* the invocation is stopped between two iterations of the loop
Stop ==
    /\ pc = "running"
    /\ LoopContinues(execution_queue)
    /\ interrupts < MaxInterrupts
    /\ pc' = "stopped"
    /\ interrupts' = interrupts + 1
    /\ interrupted' = [interrupted EXCEPT ![execution_context] = TRUE]
    /\ last_step' = [op |-> "stop", node |-> "", consumed |-> <<>>, resumed |-> FALSE]
    /\ UNCHANGED <<graph, topic_events, consumption_offsets, execution_queue, events,
                   next_event_id, execution_context, input, mode, invocations,
                   node_input_events, inputs_used, expected_output, messages_in,
                   messages_out, failed_step, stream_handed_over, builder, wire,
                   run_kind, awaited, clears>>

\* the loop ends and execute returns; the record_workflow_execution decorator
\* around it records the workflow-level respond event
Return ==
    /\ pc = "running"
    /\ ~LoopContinues(execution_queue)
    /\ pc' = "returned"
    /\ events' = record_workflow_execution(events, next_event_id, execution_context, input)
    /\ next_event_id' = next_event_id + 1
    /\ last_step' = [op |-> "return", node |-> "", consumed |-> <<>>, resumed |-> FALSE]
    /\ UNCHANGED <<graph, topic_events, consumption_offsets, execution_queue,
                   execution_context, input, mode, invocations, interrupts,
                   node_input_events, interrupted, inputs_used, expected_output,
                   messages_in, messages_out, failed_step, stream_handed_over, builder, wire,
                   run_kind, awaited, clears>>

\* EventStoreInMemory.clear_events, called by the owner of the store between
\* two invocations or, from another task, while a_execute is suspended
ClearEvents ==
    /\ pc \in {"idle", "returned", "raised", "stopped", "awaiting"}
    /\ clears.total < MaxClears
    /\ invocations + clears.total < MaxCalls
    /\ events # <<>>
    /\ events' = clear_events(events)
    /\ clears' = [total |-> clears.total + 1, in_run |-> TRUE]
    /\ last_step' = [op |-> "clear_events", node |-> "", consumed |-> <<>>,
                     resumed |-> FALSE]
    /\ UNCHANGED <<graph, topic_events, consumption_offsets, execution_queue,
                   next_event_id, pc, execution_context, input, mode, invocations,
                   interrupts, node_input_events, interrupted, inputs_used,
                   expected_output, messages_in, messages_out, failed_step,
                   stream_handed_over, builder, wire, run_kind, awaited>>

Next ==
    \/ \E req \in Requests, inp \in Inputs : Execute(req, inp)
    \/ LoopStep
    \/ LoopAwait
    \/ LoopResume
    \/ NodeRaises
    \/ AwaitedNodeRaises
    \/ Stop
    \/ Return
    \/ ClearEvents

Spec == Init /\ [][Next]_vars

\* ------------------------------------- the tool-call post-pass on its own
ToolCallLists ==
    {<<a>> : a \in 1..MaxCallId} \cup {<<a, b>> : a, b \in 1..MaxCallId}

AssistantToolCalls(calls) ==
    [role |-> "assistant", content |-> {}, tool_call_id |-> NoCallId, tool_calls |-> calls,
     tools |-> <<>>]

ToolResult(id, text) ==
    [role |-> "tool", content |-> {text}, tool_call_id |-> id, tool_calls |-> <<>>,
     tools |-> <<>>]

\* the messages a node input can carry: user text, an assistant message with
\* tool calls, a tool result
MessageKinds ==
    {Msg("user", {"q"})}
      \cup {AssistantToolCalls(c) : c \in ToolCallLists}
      \cup {ToolResult(id, text) : id \in 1..MaxCallId, text \in {"r", "s"}}

MessageLists == UNION {[1..n -> MessageKinds] : n \in 0..MaxMsgs}

\* the node whose get_command_input is called, and the function node that
\* subscribes to the topic it publishes to
CallingNode == NodeDef("P", <<TopicExpr(AGENT_INPUT_TOPIC)>>, <<"A">>)
FunctionNode == NodeDef("F", <<TopicExpr("A")>>, <<"B">>)

\* the entry publish event that carries the message list, and the consume
\* event get_node_input made of it for the calling node
CarrierEvent(msgs) ==
    PublishToTopicEvent(1, 1, AGENT_INPUT_TOPIC, 0, WORKFLOW_NAME, <<>>, msgs)

CarrierInput(msgs) ==
    << ConsumeFromTopicEvent(2, 1, AGENT_INPUT_TOPIC, 0, CallingNode.name, msgs) >>

\* the workflow was built without or with the function node; the store and
\* the entry topic hold the publish event with the message list
InitToolCalls ==
    /\ graph = 1
    /\ messages_in \in MessageLists
    /\ topic_events = [t \in AllTopics |->
                          IF t = AGENT_INPUT_TOPIC THEN << CarrierEvent(messages_in) >>
                          ELSE <<>>]
    /\ consumption_offsets = [t \in AllTopics |-> [n \in AllNodes |->
                                 IF t = AGENT_INPUT_TOPIC /\ n = CallingNode.name
                                 THEN 0 ELSE NoOffset]]
    /\ execution_queue = <<>>
    /\ events = << CarrierEvent(messages_in) >>
    /\ next_event_id = 3
    /\ pc = "post_pass_ready"
    /\ execution_context = 1
    /\ input = <<>>
    /\ mode = "execute"
    /\ invocations = 0
    /\ interrupts = 0
    /\ node_input_events = <<>>
    /\ last_step = [op |-> "none", node |-> "", consumed |-> <<>>, resumed |-> FALSE]
    /\ interrupted = [r \in Requests |-> FALSE]
    /\ inputs_used = [r \in Requests |-> {}]
    /\ expected_output = [r \in Requests |-> <<>>]
    /\ messages_out = <<>>
    /\ failed_step = NoFailedStep
    /\ stream_handed_over = FALSE
    /\ builder \in {Builder_build(RegisterAll(NewBuilder, nodes)) :
                       nodes \in {<<CallingNode>>, <<CallingNode, FunctionNode>>}}
    /\ wire = NoWire
    /\ run_kind = "none"
    /\ awaited = NoAwaited
    /\ clears = NoClears

\* node.get_command_input(execution_context, node_input) for the consumed
\* entry event: the list it returns, and the events as the call leaves them
ApplyPostPass ==
    /\ pc = "post_pass_ready"
    /\ \E ci \in {get_command_input(builder.function_specs[CallingNode.name], State,
                                     execution_context, CarrierInput(messages_in))},
          m \in {AttachToolsInPlace(builder.function_specs[CallingNode.name], State,
                                    execution_context, CarrierInput(messages_in))} :
          /\ messages_out' = ci.messages
          /\ SetState(m.st)
          /\ last_step' = [op |-> "get_command_input", node |-> CallingNode.name,
                           consumed |-> m.consumed, resumed |-> FALSE]
    /\ pc' = "post_pass_done"
    /\ UNCHANGED <<graph, execution_context, input, mode, invocations, interrupts,
                   node_input_events, interrupted, inputs_used,
                   expected_output, messages_in, failed_step, stream_handed_over, builder,
                   wire, run_kind, awaited, clears>>

NextToolCalls == ApplyPostPass

SpecToolCalls == InitToolCalls /\ [][NextToolCalls]_vars

\* ------------------------------------------------- the builder on its own
\* the nodes a caller hands to Builder.node: two nodes named N, a node that
\* names neither the entry nor the terminal topic, one that names only the
\* entry topic, one that names only the terminal topic, and the function
\* node F, which subscribes to the topic that Y and P publish to
BuilderPool ==
    { NodeDef("N", <<TopicExpr(AGENT_INPUT_TOPIC)>>, <<AGENT_OUTPUT_TOPIC>>),
      NodeDef("N", <<TopicExpr("A")>>, <<"B">>),
      NodeDef("Y", <<TopicExpr("B")>>, <<"A">>),
      NodeDef("P", <<TopicExpr(AGENT_INPUT_TOPIC)>>, <<"A">>),
      NodeDef("J", <<AndExpr("A", "B")>>, <<AGENT_OUTPUT_TOPIC>>),
      NodeDef("F", <<TopicExpr("A")>>, <<"B">>) }

InitBuilder ==
    /\ graph = 1
    /\ topic_events = [t \in AllTopics |-> <<>>]
    /\ consumption_offsets = [t \in AllTopics |-> [n \in AllNodes |-> NoOffset]]
    /\ execution_queue = <<>>
    /\ events = <<>>
    /\ next_event_id = 1
    /\ pc = "building"
    /\ execution_context = 0
    /\ input = <<>>
    /\ mode = "execute"
    /\ invocations = 0
    /\ interrupts = 0
    /\ node_input_events = <<>>
    /\ last_step = [op |-> "none", node |-> "", consumed |-> <<>>, resumed |-> FALSE]
    /\ interrupted = [r \in Requests |-> FALSE]
    /\ inputs_used = [r \in Requests |-> {}]
    /\ expected_output = [r \in Requests |-> <<>>]
    /\ messages_in = <<>>
    /\ messages_out = <<>>
    /\ failed_step = NoFailedStep
    /\ stream_handed_over = FALSE
    /\ builder = NewBuilder
    /\ wire = NoWire
    /\ run_kind = "none"
    /\ awaited = NoAwaited
    /\ clears = NoClears

\* builder.node(node)
BuilderNode(node) ==
    /\ pc = "building"
    /\ ~builder.workflow
    /\ builder.calls < MaxBuilderCalls
    /\ builder' = Builder_node(builder, node)
    /\ last_step' = [op |-> "Builder.node", node |-> node.name, consumed |-> <<>>,
                     resumed |-> FALSE]
    /\ UNCHANGED <<graph, topic_events, consumption_offsets, execution_queue, events,
                   next_event_id, pc, execution_context, input, mode, invocations,
                   interrupts, node_input_events, interrupted, inputs_used,
                   expected_output, messages_in, messages_out, failed_step,
                   stream_handed_over, wire,
                   run_kind,
                   awaited, clears>>

\* builder.build()
BuilderBuild ==
    /\ pc = "building"
    /\ ~builder.workflow
    /\ builder.calls < MaxBuilderCalls + 1
    /\ builder' = Builder_build(builder)
    /\ last_step' = [op |-> "Builder.build", node |-> "", consumed |-> <<>>,
                     resumed |-> FALSE]
    /\ UNCHANGED <<graph, topic_events, consumption_offsets, execution_queue, events,
                   next_event_id, pc, execution_context, input, mode, invocations,
                   interrupts, node_input_events, interrupted, inputs_used,
                   expected_output, messages_in, messages_out, failed_step,
                   stream_handed_over, wire,
                   run_kind,
                   awaited, clears>>

NextBuilder ==
    \/ \E node \in BuilderPool : BuilderNode(node)
    \/ BuilderBuild

SpecBuilder == InitBuilder /\ [][NextBuilder]_vars

\* ------------------------------------- a fresh run in a conversation
\* the runs the conversations have completed before
PriorRunKinds ==
    {[conversation_id |-> c, asked |-> a, answered |-> b] :
        c \in {CONVERSATION, CONVERSATION + 1},
        a \in 1..MaxTimestamp, b \in 1..MaxTimestamp}

PriorRuns == UNION {[1..n -> {k \in PriorRunKinds : k.asked <= k.answered}] : n \in 0..MaxPriorRuns}

\* the store after the assistant recorded those runs, one request each
PriorStore(runs) ==
    [i \in 1..Len(runs) |->
        AssistantRespondEvent(i, runs[i].conversation_id, 0 - i,
            << TimedMsg("user", {"q" \o ToString(i)}, runs[i].asked) >>,
            << TimedMsg("assistant", {"a" \o ToString(i)}, runs[i].answered) >>)]

InitFreshRun ==
    /\ graph = 1
    /\ topic_events = [t \in AllTopics |-> <<>>]
    /\ consumption_offsets = [t \in AllTopics |-> [n \in AllNodes |-> NoOffset]]
    /\ execution_queue = <<>>
    /\ \E runs \in PriorRuns :
          /\ events = PriorStore(runs)
          /\ next_event_id = Len(runs) + 1
    /\ pc = "idle"
    /\ execution_context = 0
    /\ input = <<>>
    /\ mode = "execute"
    /\ invocations = 0
    /\ interrupts = 0
    /\ node_input_events = <<>>
    /\ last_step = [op |-> "none", node |-> "", consumed |-> <<>>, resumed |-> FALSE]
    /\ interrupted = [r \in Requests |-> FALSE]
    /\ inputs_used = [r \in Requests |-> {}]
    /\ expected_output = [r \in Requests |-> <<>>]
    /\ messages_in = <<>>
    /\ messages_out = <<>>
    /\ failed_step = NoFailedStep
    /\ stream_handed_over = FALSE
    /\ builder = BuiltWorkflow(graph)
    /\ wire = NoWire
    /\ run_kind = "none"
    /\ awaited = NoAwaited
    /\ clears = NoClears

\* the first invocation for the request, then its loop
NextFreshRun ==
    \/ \E req \in Requests, inp \in Inputs : invocations = 0 /\ Execute(req, inp)
    \/ LoopStep
    \/ Return

SpecFreshRun == InitFreshRun /\ [][NextFreshRun]_vars

\* ------------------------------------------------- events on the wire
\* a value of type Union[Message, List[Message]]
SingleMessage(m) == [py |-> "Message", items |-> <<m>>]
MessageList(ms) == [py |-> "list", items |-> ms]

\* an id in JSON: None becomes null, an id its text
JsonId(id) == IF id = NoCallId THEN "null" ELSE ToString(id)
IdOfJson(j) == IF j = "null" THEN NoCallId ELSE CHOOSE id \in 1..MaxCallId : ToString(id) = j

\* to_jsonable_python(message): the JSON object of a Message
to_jsonable_python(m) ==
    [role |-> m.role, content |-> m.content, tool_call_id |-> JsonId(m.tool_call_id),
     tool_calls |-> [i \in 1..Len(m.tool_calls) |-> JsonId(m.tool_calls[i])],
     tools |-> m.tools]

\* Message.model_validate(json object)
Message_model_validate(j) ==
    [role |-> j.role, content |-> j.content, tool_call_id |-> IdOfJson(j.tool_call_id),
     tool_calls |-> [i \in 1..Len(j.tool_calls) |-> IdOfJson(j.tool_calls[i])],
     tools |-> j.tools]

\* json.dumps(data, default=to_jsonable_python): a Message becomes a JSON
\* object, a list a JSON array of objects
json_dumps(data) ==
    [json |-> IF data.py = "list" THEN "array" ELSE "object",
     members |-> [i \in 1..Len(data.items) |-> to_jsonable_python(data.items[i])]]

ValidationError == [py |-> "ValidationError", items |-> <<>>]

\* TypeAdapter(List[Message]).validate_python(json.loads(text)): a JSON
\* object is not a valid list
validate_message_list(j) ==
    IF j.json = "array"
    THEN MessageList([i \in 1..Len(j.members) |-> Message_model_validate(j.members[i])])
    ELSE ValidationError

\* PublishToTopicEvent.from_dict: data_dict is a list or a single object
validate_message_or_list(j) ==
    IF j.json = "array" THEN validate_message_list(j)
    ELSE SingleMessage(Message_model_validate(j.members[1]))

PublishToTopicEvent_to_dict(e) ==
    [event_id |-> e.event_id, event_type |-> e.event_type,
     event_context |-> [consumed_event_ids |-> e.consumed_event_ids,
                        publisher_name |-> e.name, topic_name |-> e.topic_name,
                        offset |-> e.offset, execution_context |-> e.req],
     data |-> json_dumps(e.data)]

PublishToTopicEvent_from_dict(d) ==
    [PublishToTopicEvent(d.event_id, d.event_context.execution_context,
                         d.event_context.topic_name, d.event_context.offset,
                         d.event_context.publisher_name,
                         d.event_context.consumed_event_ids, <<>>)
     EXCEPT !.data = validate_message_or_list(d.data)]

\* ConsumeFromTopicEvent.to_dict and from_dict
ConsumeFromTopicEvent_to_dict(e) ==
    [event_id |-> e.event_id, event_type |-> e.event_type,
     event_context |-> [consumer_name |-> e.name, topic_name |-> e.topic_name,
                        offset |-> e.offset, execution_context |-> e.req],
     data |-> json_dumps(e.data)]

ConsumeFromTopicEvent_from_dict(d) ==
    [ConsumeFromTopicEvent(d.event_id, d.event_context.execution_context,
                           d.event_context.topic_name, d.event_context.offset,
                           d.event_context.consumer_name, <<>>)
     EXCEPT !.data = validate_message_or_list(d.data)]

NodeRespondEvent(id, req, node, input_data, output_data) ==
    [event_id |-> id, event_type |-> "NodeRespond", req |-> req, name |-> node,
     input_data |-> input_data, output_data |-> output_data]

NodeRespondEvent_to_dict(e) ==
    [event_id |-> e.event_id, event_type |-> e.event_type,
     event_context |-> [node_name |-> e.name, execution_context |-> e.req],
     data |-> [input_data |-> [i \in 1..Len(e.input_data) |->
                                  ConsumeFromTopicEvent_to_dict(e.input_data[i])],
               output_data |-> json_dumps(e.output_data)]]

\* NodeRespondEvent.from_dict: the output data is validated as a list
NodeRespondEvent_from_dict(d) ==
    LET out == validate_message_list(d.data.output_data)
    IN IF out = ValidationError THEN ValidationError
       ELSE NodeRespondEvent(d.event_id, d.event_context.execution_context,
                             d.event_context.node_name,
                             [i \in 1..Len(d.data.input_data) |->
                                 ConsumeFromTopicEvent_from_dict(d.data.input_data[i])],
                             out)

to_dict(e) ==
    IF e.event_type = "NodeRespond" THEN NodeRespondEvent_to_dict(e)
    ELSE PublishToTopicEvent_to_dict(e)

from_dict(d) ==
    IF d.event_type = "NodeRespond" THEN NodeRespondEvent_from_dict(d)
    ELSE PublishToTopicEvent_from_dict(d)

\* the data an event carries: one message or a list of messages
EventData ==
    {SingleMessage(m) : m \in MessageKinds}
      \cup {MessageList(ms) : ms \in UNION {[1..n -> MessageKinds] : n \in 0..MaxDataLen}}

\* the events put on the wire: the respond event of a node, with and without
\* a consumed event, and a publish event
WireEvents ==
    {NodeRespondEvent(2, 1, "N", inp, d) :
        inp \in {<<>>, << [ConsumeFromTopicEvent(1, 1, "A", 0, "N", <<>>)
                            EXCEPT !.data = MessageList(<<Msg("user", {"q"})>>)] >>},
        d \in EventData}
      \cup {[PublishToTopicEvent(2, 1, "A", 0, "N", <<1>>, <<>>) EXCEPT !.data = d] :
                d \in EventData}

InitWire ==
    /\ graph = 1
    /\ topic_events = [t \in AllTopics |-> <<>>]
    /\ consumption_offsets = [t \in AllTopics |-> [n \in AllNodes |-> NoOffset]]
    /\ execution_queue = <<>>
    /\ events = <<>>
    /\ next_event_id = 1
    /\ pc = "wire"
    /\ execution_context = 0
    /\ input = <<>>
    /\ mode = "execute"
    /\ invocations = 0
    /\ interrupts = 0
    /\ node_input_events = <<>>
    /\ last_step = [op |-> "none", node |-> "", consumed |-> <<>>, resumed |-> FALSE]
    /\ interrupted = [r \in Requests |-> FALSE]
    /\ inputs_used = [r \in Requests |-> {}]
    /\ expected_output = [r \in Requests |-> <<>>]
    /\ messages_in = <<>>
    /\ messages_out = <<>>
    /\ failed_step = NoFailedStep
    /\ stream_handed_over = FALSE
    /\ builder = NewBuilder
    /\ \E e \in WireEvents : wire = [NoWire EXCEPT !.stage = "event", !.event = e]
    /\ run_kind = "none"
    /\ awaited = NoAwaited
    /\ clears = NoClears

UnchangedButWire ==
    UNCHANGED <<graph, topic_events, consumption_offsets, execution_queue, events,
                next_event_id, pc, execution_context, input, mode, invocations,
                interrupts, node_input_events, last_step, interrupted, inputs_used,
                expected_output, messages_in, messages_out, failed_step,
                stream_handed_over, builder, run_kind,
                   awaited, clears>>

\* event.to_dict()
ToDict ==
    /\ wire.stage = "event"
    /\ wire' = [wire EXCEPT !.stage = "dict", !.dict = to_dict(wire.event)]
    /\ UnchangedButWire

\* type(event).from_dict(dict)
FromDict ==
    /\ wire.stage = "dict"
    /\ wire' = [wire EXCEPT !.stage = "decoded", !.decoded = from_dict(wire.dict)]
    /\ UnchangedButWire

NextWire ==
    \/ ToDict
    \/ FromDict

SpecWire == InitWire /\ [][NextWire]_vars

\* ------------------- a resumption from a store another process wrote
\* the loop run for at most k iterations
RECURSIVE RunSteps(_, _, _, _)
RunSteps(g, st, req, k) ==
    IF k = 0 \/ ~LoopContinues(st.q) THEN st
    ELSE LET r == LoopBody(g, st, req)
         IN IF r.error # NoError THEN r.st ELSE RunSteps(g, r.st, req, k - 1)

\* the consume events a damaged store may hold at its end: a subscriber of
\* a topic, at an offset no stored publish event of the topic has
StrayConsumes(g, store, req) ==
    {ConsumeFromTopicEvent(Len(store) + 1, req, p[1], p[2], p[3], <<>>) :
        p \in {x \in Topics(g) \X (0..MaxStrayOffset) \X AllNodes :
                 /\ Member(topic_nodes(g, x[1]), x[3])
                 /\ ~\E i \in 1..Len(store) :
                       /\ IsPublish(store[i])
                       /\ store[i].topic_name = x[1]
                       /\ store[i].offset = x[2]}}

\* the workflow object is new; the store holds the events of an earlier
\* run of the request, stopped after some iterations, and possibly a stray
\* consume event
InitStoredRun ==
    /\ graph \in 1..NumGraphs
    /\ mode \in {"execute", "a_execute"}
    /\ topic_events = [t \in AllTopics |-> <<>>]
    /\ consumption_offsets = [t \in AllTopics |-> [n \in AllNodes |-> NoOffset]]
    /\ execution_queue = <<>>
    /\ \E req \in Requests, inp \in Inputs, k \in 0..MaxStoredSteps :
          LET empty == [te |-> topic_events, cur |-> consumption_offsets, q |-> <<>>,
                        store |-> <<>>, nid |-> 1]
              st == RunSteps(graph, initial_workflow(graph, empty, req, inp), req, k)
          IN /\ \E stray \in {<<>>} \cup {<<c>> : c \in StrayConsumes(graph, st.store, req)} :
                   /\ events = st.store \o stray
                   /\ next_event_id = st.nid + Len(stray)
             /\ inputs_used = [r \in Requests |-> IF r = req THEN {inp} ELSE {}]
    /\ pc = "idle"
    /\ execution_context = 0
    /\ input = <<>>
    /\ invocations = 0
    /\ interrupts = 0
    /\ node_input_events = <<>>
    /\ last_step = [op |-> "none", node |-> "", consumed |-> <<>>, resumed |-> FALSE]
    /\ interrupted = [r \in Requests |-> TRUE]
    /\ expected_output = [r \in Requests |-> <<>>]
    /\ messages_in = <<>>
    /\ messages_out = <<>>
    /\ failed_step = NoFailedStep
    /\ stream_handed_over = FALSE
    /\ builder = BuiltWorkflow(graph)
    /\ wire = NoWire
    /\ run_kind = "none"
    /\ awaited = NoAwaited
    /\ clears = NoClears

\* the first invocation of the new workflow object, then its loop
NextStoredRun ==
    \/ \E req \in Requests, inp \in Inputs : invocations = 0 /\ Execute(req, inp)
    \/ LoopStep
    \/ LoopAwait
    \/ LoopResume
    \/ Return

SpecStoredRun == InitStoredRun /\ [][NextStoredRun]_vars

\* ------------------------------------------------------------------ claims
\* The events consumed to produce the publish event that the consume event
\* with this id read.
DirectlyConsumed(pool, id) ==
    {a \in {pool[i].event_id : i \in 1..Len(pool)} :
        \E i, j \in 1..Len(pool) :
            /\ pool[i].event_id = id
            /\ IsConsume(pool[i])
            /\ IsPublish(pool[j])
            /\ pool[j].topic_name = pool[i].topic_name
            /\ pool[j].offset = pool[i].offset
            /\ Member(pool[j].consumed_event_ids, a)}

RECURSIVE TransitivelyConsumed(_, _, _)
TransitivelyConsumed(pool, ids, depth) ==
    IF depth = 0 \/ ids = {} THEN ids
    ELSE ids \cup TransitivelyConsumed(pool,
                     UNION {DirectlyConsumed(pool, id) : id \in ids}, depth - 1)

ConsumedBy(pool, id) ==
    TransitivelyConsumed(pool, DirectlyConsumed(pool, id), Len(pool))

\* C1: in the event list get_command_input orders for a node invocation, an
\* event never comes before an event it consumed, directly or transitively.
C1_CausalOrder ==
    node_input_events # <<>> =>
        LET pool == StoredTopicEvents(events, node_input_events[1].req)
        IN \A i, j \in 1..Len(node_input_events) :
              i < j => node_input_events[j].event_id
                         \notin ConsumedBy(pool, node_input_events[i].event_id)

C1_Witness ==
    /\ node_input_events # <<>>
    /\ LET pool == StoredTopicEvents(events, node_input_events[1].req)
       IN \E i, j, k \in 1..Len(node_input_events) :
             /\ i < j
             /\ j < k
             /\ node_input_events[i].event_id
                  \in DirectlyConsumed(pool, node_input_events[j].event_id)
             /\ node_input_events[i].event_id
                  \in ConsumedBy(pool, node_input_events[k].event_id)
             /\ node_input_events[i].event_id
                  \notin DirectlyConsumed(pool, node_input_events[k].event_id)

NoDuplicateConsume(store) ==
    \A i, j \in 1..Len(store) :
        (/\ i < j
         /\ IsConsume(store[i])
         /\ IsConsume(store[j])
         /\ store[i].req = store[j].req)
        => ~(/\ store[i].topic_name = store[j].topic_name
             /\ store[i].offset = store[j].offset
             /\ store[i].name = store[j].name)

\* C2: over any sequence of invocations for one request id, failures and
\* resumptions included, the store never holds two consume events with the
\* same (topic_name, offset, consumer_name); the store is never cleared.
C2_ExactlyOnceDelivery == clears.total = 0 => NoDuplicateConsume(events)

\* C3: consume right after consume returns nothing, for every topic and
\* consumer, and get_node_input right after get_node_input for the same node
\* returns no consumed events.
C3_ConsumeTwiceEmpty ==
    /\ \A t \in Topics(graph) : \A n \in SeqToSet(NodeNames(graph)) :
          consume(consume(State, t, n).st, t, n).events = <<>>
    /\ \A n \in SeqToSet(NodeNames(graph)) :
          get_node_input(get_node_input(State, NodeOf(graph, n)).st,
                         NodeOf(graph, n)).events = <<>>

\* a node was dequeued a second time with no publish since its first pop,
\* and a first call in this state would still return events for some node
C3_Witness ==
    /\ last_step.op = "step"
    /\ last_step.consumed = <<>>
    /\ \E i \in 1..Len(events) : IsConsume(events[i]) /\ events[i].name = last_step.node
    /\ \E n \in SeqToSet(NodeNames(graph)) :
          get_node_input(State, NodeOf(graph, n)).events # <<>>

\* C4: a request that was interrupted and re-invoked with the same input
\* ends with the terminal output of its uninterrupted run (workflows without
\* a human-input topic, where the input of a re-invocation is not used).
C4_IdempotentReplay ==
    \A r \in Requests :
        (/\ HUMAN_TOPIC \notin Topics(graph)
         /\ clears.total = 0
         /\ pc = "returned"
         /\ execution_context = r
         /\ interrupted[r]
         /\ Cardinality(inputs_used[r]) = 1)
        => TerminalOutput(events, r) = expected_output[r]

\* the step took the node at the head of the execution queue
Popped == pc = "running" /\ last_step'.op \in {"step", "raise", "await"}

\* the nodes a step appended to the execution queue
AppendedNodes ==
    IF Popped
    THEN SubSeq(execution_queue', Len(execution_queue), Len(execution_queue'))
    ELSE SubSeq(execution_queue', Len(execution_queue) + 1, Len(execution_queue'))

HasUnconsumed(te, cur, t, n) == \E i \in 1..Len(te[t]) : te[t][i].offset > cur[t][n]

\* C5: a node subscribed to A AND B is appended to the execution queue, by
\* on_event or by the resumption pass, only when both A and B hold data it
\* has not consumed.
C5_ReadinessCorrectness ==
    [][\A k \in 1..Len(AppendedNodes) :
          \A x \in 1..Len(NodeOf(graph, AppendedNodes[k]).subscribed_expressions) :
             LET expr == NodeOf(graph, AppendedNodes[k]).subscribed_expressions[x]
             IN expr.op = "and" =>
                   \A a \in 1..Len(expr.args) :
                      HasUnconsumed(topic_events', consumption_offsets', expr.args[a],
                                    AppendedNodes[k])]_vars

\* after a publish to A, only A holds data for the node joining A and B, and
\* the node is not queued
C5_Witness ==
    /\ graph = 7
    /\ last_step.op = "step"
    /\ last_step.node = "Y"
    /\ last_step.consumed # <<>>
    /\ HasUnconsumed(topic_events, consumption_offsets, "A", "J")
    /\ ~HasUnconsumed(topic_events, consumption_offsets, "B", "J")
    /\ ~Member(execution_queue, "J")

IsSyntheticToolMessage(m) == m.role = "tool" /\ m.content = {} /\ m.tool_calls = <<>>

\* a message of the returned list as it was before the function specs were
\* attached to the last one
WithoutTools(m) == [m EXCEPT !.tools = <<>>]

\* C6: in the list get_command_input returns, every message with tool_calls
\* is directly followed by one tool message per call id, each taken from
\* the input or, when the input has none with that id, synthetic and empty.
C6_ToolCallPairing ==
    pc = "post_pass_done" =>
        \A p \in 1..Len(messages_out) :
            LET m == messages_out[p]
                k == Len(m.tool_calls)
            IN k > 0 =>
                /\ p + k <= Len(messages_out)
                /\ \A id \in 1..(MaxCallId + 1) :
                      Cardinality({c \in 1..k : m.tool_calls[c] = id})
                        = Cardinality({q \in (p + 1)..(p + k) :
                                          messages_out[q].tool_call_id = id})
                /\ \A q \in (p + 1)..(p + k) :
                      IF \E i \in 1..Len(messages_in) :
                            messages_in[i].tool_call_id = messages_out[q].tool_call_id
                      THEN \E i \in 1..Len(messages_in) :
                               messages_in[i] = WithoutTools(messages_out[q])
                      ELSE IsSyntheticToolMessage(messages_out[q])

\* two tool-call messages in one list, one of them with two calls, one call
\* answered from the input and one by a synthetic message
C6_Witness ==
    /\ pc = "post_pass_done"
    /\ \E p1, p2 \in 1..Len(messages_out) :
          /\ p1 < p2
          /\ Len(messages_out[p1].tool_calls) = 2
          /\ Len(messages_out[p2].tool_calls) > 0
    /\ \E q \in 1..Len(messages_out) :
          messages_out[q].tool_call_id # NoCallId /\ IsSyntheticToolMessage(messages_out[q])
    /\ \E q \in 1..Len(messages_out) :
          messages_out[q].tool_call_id # NoCallId /\ ~IsSyntheticToolMessage(messages_out[q])

CountEvents(store, req, P(_)) ==
    Cardinality({i \in 1..Len(store) : store[i].req = req /\ P(store[i])})

IsWorkflowRespond(e) == e.event_type = "WorkflowRespond"
IsEntryPublish(e) == IsPublish(e) /\ e.topic_name = AGENT_INPUT_TOPIC
IsTerminalPublish(e) == IsPublish(e) /\ e.topic_name = AGENT_OUTPUT_TOPIC

SingleNodeFreshRunReturned ==
    graph = 1 /\ invocations = 1 /\ pc = "returned" /\ clears.total = 0

\* C7 as stated: the single-node fresh run leaves exactly 2 topic events
\* (1 consume, 1 publish) and the workflow respond event, and an empty queue.
C7_TwoTopicEvents ==
    SingleNodeFreshRunReturned =>
        /\ CountEvents(events, execution_context, IsTopicEvent) = 2
        /\ CountEvents(events, execution_context, IsConsume) = 1
        /\ CountEvents(events, execution_context, IsPublish) = 1
        /\ CountEvents(events, execution_context, IsWorkflowRespond) = 1
        /\ execution_queue = <<>>

\* C7 amended: the single-node fresh run leaves exactly 3 topic events: the
\* publish to the entry topic, the node's consume and the node's publish to
\* the terminal topic; the node ran once, one workflow respond event, and
\* the queue is empty.
C7_ThreeTopicEvents ==
    SingleNodeFreshRunReturned =>
        /\ CountEvents(events, execution_context, IsTopicEvent) = 3
        /\ CountEvents(events, execution_context, IsConsume) = 1
        /\ CountEvents(events, execution_context, IsPublish) = 2
        /\ CountEvents(events, execution_context, IsEntryPublish) = 1
        /\ CountEvents(events, execution_context, IsTerminalPublish) = 1
        /\ CountEvents(events, execution_context, IsWorkflowRespond) = 1
        /\ execution_queue = <<>>

C7_Witness == SingleNodeFreshRunReturned /\ Len(events) = 4

\* a stored publish event on topic t that node n has no stored consume event for
PendingFor(store, req, t, n) ==
    \E i \in 1..Len(store) :
        /\ IsPublish(store[i])
        /\ store[i].req = req
        /\ store[i].topic_name = t
        /\ ~\E j \in 1..Len(store) :
               /\ IsConsume(store[j])
               /\ store[j].req = req
               /\ store[j].topic_name = t
               /\ store[j].name = n
               /\ store[j].offset = store[i].offset

\* node n was interrupted between the publish it waits for and its consume
InterruptedBeforeConsume(store, req, node) ==
    /\ \E t \in SeqToSet(SubscribedTopics(node)) : PendingFor(store, req, t, node.name)
    /\ \A x \in 1..Len(node.subscribed_expressions) :
          LET expr == node.subscribed_expressions[x]
          IN IF expr.op = "and"
             THEN \A a \in 1..Len(expr.args) : PendingFor(store, req, expr.args[a], node.name)
             ELSE \E a \in 1..Len(expr.args) : PendingFor(store, req, expr.args[a], node.name)

IsResumption == pc # "running" /\ last_step'.op = "initial_workflow" /\ last_step'.resumed

\* C8: re-invoking a request whose store holds a publish event that node N
\* has not consumed puts N in the execution queue, publishes nothing to the
\* entry topic and records no new entry-topic publish event.
C8_ResumeWithoutRepublish ==
    [][IsResumption =>
          /\ \A k \in 1..Len(GraphNodes(graph)) :
                InterruptedBeforeConsume(events, execution_context', GraphNodes(graph)[k])
                   => Member(execution_queue', GraphNodes(graph)[k].name)
          /\ CountEvents(events', execution_context', IsEntryPublish)
               = CountEvents(events, execution_context', IsEntryPublish)
          /\ Len(topic_events'[AGENT_INPUT_TOPIC])
               = CountEvents(events, execution_context', IsEntryPublish)]_vars

\* a resumption after a node failed: the failed node is queued again
C8_Witness ==
    /\ last_step.op = "initial_workflow"
    /\ last_step.resumed
    /\ interrupted[execution_context]
    /\ execution_queue # <<>>
    /\ \E k \in 1..Len(GraphNodes(graph)) :
          /\ InterruptedBeforeConsume(events, execution_context, GraphNodes(graph)[k])
          /\ Member(execution_queue, GraphNodes(graph)[k].name)

IsHumanPublish(e) == IsPublish(e) /\ IsHumanRequestTopic(e.topic_name)

\* C9: a re-invocation that finds a human-input publish event pending merges
\* the new input into that event and leaves the store with no further
\* publish event for the topic.
C9_HumanInputMergedInPlace ==
    [][(IsResumption /\ clears.total = 0 /\ \E k \in 1..Len(GraphNodes(graph)) :
                           PendingFor(events, execution_context', HUMAN_TOPIC,
                                      GraphNodes(graph)[k].name))
          => /\ CountEvents(events', execution_context', IsHumanPublish)
                  = CountEvents(events, execution_context', IsHumanPublish)
             /\ \A i, j \in 1..Len(events') :
                   (i < j /\ IsHumanPublish(events'[i]) /\ IsHumanPublish(events'[j])
                       /\ events'[i].req = events'[j].req)
                   => events'[i].offset # events'[j].offset]_vars

\* C10: when execute or a_execute returns, the execution queue is empty.
C10_QueueEmptyOnReturn == pc = "returned" => execution_queue = <<>>

\* a_execute returned after nodes were queued and run
C10_Witness ==
    /\ pc = "returned"
    /\ mode = "a_execute"
    /\ interrupts > 0
    /\ \E i \in 1..Len(events) : IsConsume(events[i])

\* every stored consume event follows a stored publish event of its request
\* at the same (topic_name, offset)
ConsumeHasPriorPublish(store) ==
    \A j \in 1..Len(store) :
        IsConsume(store[j]) =>
            \E i \in 1..(j - 1) :
                /\ IsPublish(store[i])
                /\ store[i].req = store[j].req
                /\ store[i].topic_name = store[j].topic_name
                /\ store[i].offset = store[j].offset

\* the stored publish events of one request and one topic have increasing
\* offsets in store order
PublishOffsetsIncrease(store) ==
    \A i, j \in 1..Len(store) :
        (/\ i < j
         /\ IsPublish(store[i])
         /\ IsPublish(store[j])
         /\ store[i].req = store[j].req
         /\ store[i].topic_name = store[j].topic_name)
        => store[i].offset < store[j].offset

\* C11: in the store, every consume event references a (topic_name, offset)
\* of an earlier publish event of its request, and the publish events of a
\* request never share a (topic_name, offset): per topic their offsets
\* increase in store order, resumptions included.
C11_OffsetsConsistent ==
    clears.total = 0 => ConsumeHasPriorPublish(events) /\ PublishOffsetsIncrease(events)

\* what a node is delivered: topic, offset and data of each consumed event
Delivered(evs) ==
    [i \in 1..Len(evs) |->
        [topic_name |-> evs[i].topic_name, offset |-> evs[i].offset, data |-> evs[i].data]]

\* the step in which a node body raises records nothing and ends the invocation
RaiseRecordsNothing ==
    last_step'.op = "raise" /\ pc \in {"running", "awaiting"}
        => pc' = "raised" /\ events' = events

\* after the failure nothing is dequeued: the next step is a new invocation
RaiseEndsInvocation ==
    pc = "raised"
        => last_step'.op \in {"initial_workflow", "initial_workflow_raised", "clear_events"}

\* the re-invocation puts the failed node in the execution queue
ReinvocationRequeues ==
    (/\ pc = "raised"
     /\ last_step.op = "raise"
     /\ last_step'.op = "initial_workflow"
     /\ execution_context' = execution_context)
    => Member(execution_queue', failed_step.node)

\* the failed node's next run gets the events the failed step had consumed
RerunGetsSameInput ==
    (/\ failed_step.node # ""
     /\ pc = "running"
     /\ last_step'.op \in {"step", "raise", "await"}
     /\ last_step'.node = failed_step.node
     /\ last_step'.consumed # <<>>)
    => Delivered(last_step'.consumed) = Delivered(failed_step.consumed)

\* C12: a node body that raises ends the invocation with no retry and no
\* further dequeue, nothing of the failed step is recorded in the store, and
\* a re-invocation with the same request id queues the failed node again
\* and delivers it the same input events.
C12_FailedStepReplayed ==
    [][clears'.total = 0 =>
          /\ RaiseRecordsNothing
          /\ RaiseEndsInvocation
          /\ ReinvocationRequeues
          /\ RerunGetsSameInput]_vars

\* C13: Builder.node called with a name that is already registered ends
\* with DuplicateNodeError and leaves the registered nodes as they were, the
\* earlier node still under that name.
C13_DuplicateNodeRejected ==
    [][(/\ builder'.calls = builder.calls + 1
        /\ last_step'.op = "Builder.node"
        /\ HasNode(builder, last_step'.node))
       => /\ builder'.last = "DuplicateNodeError"
          /\ builder'.nodes = builder.nodes]_vars

\* a second node named N was refused and the first N is still registered
C13_Witness ==
    /\ builder.last = "DuplicateNodeError"
    /\ last_step.node = "N"
    /\ Len(builder.nodes) >= 2
    /\ \E i \in 1..Len(builder.nodes) :
          builder.nodes[i] = NodeDef("N", <<TopicExpr("A")>>, <<"B">>)

\* some registered node subscribes or publishes to topic t
NamedByNode(b, t) ==
    \E i \in 1..Len(b.nodes) :
        \/ Member(b.nodes[i].publish_to, t)
        \/ \E x \in 1..Len(b.nodes[i].subscribed_expressions) :
              Member(b.nodes[i].subscribed_expressions[x].args, t)

\* C14: build() ends with the configuration error, returning no workflow,
\* exactly when the registered topics hold neither the entry topic nor the
\* terminal topic; with one of the two it returns the workflow.
C14_BuildRequiresEntryOrTerminal ==
    builder.last \in {"ValueError", "build"} =>
        LET neither == /\ AGENT_INPUT_TOPIC \notin builder.topics
                       /\ AGENT_OUTPUT_TOPIC \notin builder.topics
        IN /\ \A t \in AllTopics : t \in builder.topics <=> NamedByNode(builder, t)
           /\ builder.last = "ValueError" <=> neither
           /\ builder.workflow <=> ~neither

\* build() returned the workflow with the terminal topic but no entry topic
C14_Witness ==
    /\ builder.last = "build"
    /\ builder.workflow
    /\ AGENT_INPUT_TOPIC \notin builder.topics
    /\ AGENT_OUTPUT_TOPIC \in builder.topics
    /\ Len(builder.nodes) >= 2

\* the messages of the AssistantRespondEvents a store holds for a conversation
HistoryOf(store, conv) ==
    LET idx == SelectSeq([i \in 1..Len(store) |-> i],
                         LAMBDA i : IsAssistantRespond(store[i])
                                       /\ store[i].conversation_id = conv)
    IN Flatten([k \in 1..Len(idx) |-> store[idx[k]].input_data \o store[idx[k]].output_data])

SameMessages(s, t) ==
    /\ Len(s) = Len(t)
    /\ \A m \in SeqToSet(s) \cup SeqToSet(t) : Count(s, m) = Count(t, m)

FreshRunStarted == last_step.op = "initial_workflow" /\ ~last_step.resumed

\* C15: a fresh run publishes exactly one event to the entry topic and
\* records it in the store; its data is the input and output messages of all
\* AssistantRespondEvents of the conversation in non-decreasing timestamp
\* order, followed by the new input messages in their order.
C15_FreshRunSeedsConversation ==
    FreshRunStarted =>
        /\ Len(topic_events[AGENT_INPUT_TOPIC]) = 1
        /\ Last(events) = topic_events[AGENT_INPUT_TOPIC][1]
        /\ CountEvents(events, execution_context, IsEntryPublish) = 1
        /\ CountEvents(events, execution_context, IsTopicEvent) = 1
        /\ LET data == topic_events[AGENT_INPUT_TOPIC][1].data
               n == Len(data) - Len(input)
           IN /\ n >= 0
              /\ SubSeq(data, n + 1, Len(data)) = input
              /\ SameMessages(SubSeq(data, 1, n), HistoryOf(events, CONVERSATION))
              /\ \A i, j \in 1..n : i < j => data[i].timestamp <= data[j].timestamp

\* the conversation has two earlier runs, the second asked before the first
\* was answered, and another conversation has a run too
C15_Witness ==
    /\ FreshRunStarted
    /\ Len(HistoryOf(events, CONVERSATION)) = 4
    /\ HistoryOf(events, CONVERSATION)[2].timestamp > HistoryOf(events, CONVERSATION)[3].timestamp
    /\ HistoryOf(events, CONVERSATION + 1) # <<>>

\* the events a step appended to topic t
NewlyPublished(t) == SubSeq(topic_events'[t], Len(topic_events[t]) + 1, Len(topic_events'[t]))

\* a loop iteration that gathered input and published the node's result,
\* or in a_execute the half of it that follows the wait for the node
PublishingStep ==
    \/ last_step'.op = "step" /\ next_event_id' # next_event_id
    \/ last_step'.op = "publish"

\* C16: the iteration that publishes a node's result appends to the store
\* one batch: the node's consumed events, then the events its target topics
\* actually published, in publish_to order; a topic that declined adds no
\* entry.
C16_BatchRecorded ==
    [][PublishingStep =>
          LET targets == NodeOf(graph, last_step'.node).publish_to
          IN /\ events' = events \o last_step'.consumed
                             \o Flatten([k \in 1..Len(targets) |-> NewlyPublished(targets[k])])
             /\ \A k \in 1..Len(targets) : Len(NewlyPublished(targets[k])) <= 1
             /\ \A i \in (Len(events) + Len(last_step'.consumed) + 1)..Len(events') :
                   /\ IsPublish(events'[i])
                   /\ events'[i].name = last_step'.node
                   /\ events'[i].consumed_event_ids = EventIds(last_step'.consumed)]_vars

\* node R published to D and to the terminal topic while topic C declined:
\* the batch is R's consume event and the two publish events, in that order
C16_Witness ==
    /\ graph = 5
    /\ last_step.op = "step"
    /\ last_step.node = "R"
    /\ topic_events["C"] = <<>>
    /\ Len(events) = 4
    /\ IsConsume(events[2])
    /\ IsPublish(events[3]) /\ events[3].topic_name = "D"
    /\ IsPublish(events[4]) /\ events[4].topic_name = AGENT_OUTPUT_TOPIC

\* C17: the loop takes the node at the head of the execution queue, and a
\* node made ready by a publish goes to the tail: the nodes queued before
\* the publish stay ahead of it, in their order.
C17_FifoOrder ==
    [][~UNCHANGED vars =>
          /\ Popped =>
                /\ last_step'.node = Head(execution_queue)
                /\ IsPrefix(Tail(execution_queue), execution_queue')
          /\ last_step'.op \in {"initial_workflow", "publish"} =>
                IsPrefix(execution_queue, execution_queue')]_vars

\* Y ran while J was queued behind it, and its publish queued J once more
C17_Witness ==
    /\ graph = 2
    /\ invocations = 1
    /\ last_step.op = "step"
    /\ last_step.node = "Y"
    /\ execution_queue = <<"J", "J">>

\* C18: on_event leaves the execution queue as it is for every
\* OutputTopicEvent, for every event that is no publish event and for every
\* publish event of a topic without subscribers.
C18_OutputNeverTriggers ==
    \A i \in 1..Len(events) :
        (\/ ~IsPublish(events[i])
         \/ events[i].is_output
         \/ ~HasSubscribers(graph, events[i].topic_name))
        => on_event(graph, State, events[i]) = execution_queue

\* node T subscribes to the terminal topic and is ready, a publish to the
\* terminal topic and one to topic E, which nobody subscribes to, are stored,
\* and T was not queued
C18_Witness ==
    /\ graph = 5
    /\ invocations = 1
    /\ can_execute(State, NodeOf(graph, "T"))
    /\ ~Member(execution_queue, "T")
    /\ \E i \in 1..Len(events) : IsPublish(events[i]) /\ events[i].topic_name = "E"
    /\ \E i \in 1..Len(events) : IsTerminalPublish(events[i])
    /\ \E i \in 1..Len(events) : IsConsume(events[i])

\* C19: in a_execute, once the streaming node was dequeued with input and
\* its live sequence handed over, nothing more is dequeued in the invocation.
C19_StreamEndsProcessing ==
    [][stream_handed_over /\ pc = "running" => execution_queue' = execution_queue]_vars

\* C20: the store only grows at its end: every step leaves the entries it
\* holds as they are and in their order, the human-input merge included.
C20_StoreAppendOnly ==
    [][last_step'.op # "clear_events" => IsPrefix(events, events')]_vars

\* C21: after build(), every LLM node that publishes to a topic a function
\* node subscribes to holds that function node's function specs, also when
\* several LLM nodes publish to the topic.
C21_FunctionSpecsLinked ==
    builder.workflow =>
        \A i, j \in 1..Len(builder.nodes) :
            (/\ IsLLMNode(builder.nodes[i])
             /\ IsFunctionCallNode(builder.nodes[j])
             /\ \E t \in SeqToSet(SubscribedTopics(builder.nodes[j])) :
                   Member(builder.nodes[i].publish_to, t))
            => Member(builder.function_specs[builder.nodes[i].name], builder.nodes[j].name)

\* with one LLM node publishing to the function node's topic the specs arrive
C21_SinglePublisherLinked ==
    /\ builder.workflow
    /\ \E n \in AllNodes : builder.function_specs[n] # <<>>

\* a stored consume event of the request names a (topic, offset) that no
\* stored publish event of the request has
StoreInconsistent(store, req) ==
    \E j \in 1..Len(store) :
        /\ IsConsume(store[j])
        /\ store[j].req = req
        /\ ~\E i \in 1..Len(store) :
              /\ IsPublish(store[i])
              /\ store[i].req = req
              /\ store[i].topic_name = store[j].topic_name
              /\ store[i].offset = store[j].offset

\* C22: a resumption that finds a stored consume event with no stored
\* publish event for its (topic, offset) fails: the invocation does not go
\* on to its loop and enqueues no node.
C22_InconsistentStoreIsFatal ==
    [][(IsResumption /\ StoreInconsistent(events, execution_context'))
       => (pc' # "running" /\ execution_queue' = execution_queue)]_vars

\* a consistent store is resumed
C22_ConsistentStoreResumed ==
    /\ last_step.op = "initial_workflow"
    /\ last_step.resumed
    /\ ~StoreInconsistent(events, execution_context)
    /\ execution_queue # <<>>

\* C23: an event that went through to_dict and from_dict is decoded without
\* an error and equals the event, for a NodeRespondEvent and for a
\* PublishToTopicEvent, whether its data is one Message or a list.
C23_EventsRoundTrip ==
    wire.stage = "decoded" => wire.decoded = wire.event

\* a PublishToTopicEvent holding one Message round-trips
C23_PublishSingleRoundTrips ==
    /\ wire.stage = "decoded"
    /\ wire.event.event_type = "PublishToTopic"
    /\ wire.event.data.py = "Message"
    /\ wire.decoded = wire.event

\* C24: an iteration of the loop whose get_node_input gathered no event
\* only removes the node from the head of the queue: the node body is not
\* called, nothing is published and nothing is written to the store.
C24_EmptyInputSkipsNode ==
    [][(last_step'.op = "step" /\ last_step'.consumed = <<>>)
       => /\ execution_queue' = Tail(execution_queue)
          /\ events' = events
          /\ topic_events' = topic_events
          /\ consumption_offsets' = consumption_offsets
          /\ next_event_id' = next_event_id
          /\ node_input_events' = node_input_events]_vars

\* a node was dequeued with nothing to consume while other nodes are still
\* queued behind it
C24_Witness ==
    /\ pc = "running"
    /\ last_step.op = "step"
    /\ last_step.consumed = <<>>
    /\ execution_queue # <<>>

\* C30: on every workflow that build() returned, the first invocation for a
\* request finds the entry topic, publishes the input to it and records
\* that publish event, without raising.
C30_BuiltWorkflowStarts ==
    [][(/\ builder.workflow
        /\ pc # "running"
        /\ StoredTopicEvents(events, execution_context') = <<>>
        /\ last_step'.op \in {"initial_workflow", "initial_workflow_raised"})
       => /\ pc' = "running"
          /\ Len(events') = Len(events) + 1
          /\ IsPublish(Last(events'))
          /\ Last(events').topic_name = AGENT_INPUT_TOPIC
          /\ Last(events').data = input']_vars

\* a workflow that names the entry topic starts its fresh run
C30_EntryTopicStarts ==
    /\ AGENT_INPUT_TOPIC \in builder.topics
    /\ last_step.op = "initial_workflow"
    /\ ~last_step.resumed
    /\ IsPublish(Last(events))

\* the nodes the resumption pass appended to the execution queue
ResumeAppended == SubSeq(execution_queue', Len(execution_queue) + 1, Len(execution_queue'))

\* the workflow state the resumption left
StateAfter == [te |-> topic_events', cur |-> consumption_offsets', q |-> execution_queue',
               store |-> events', nid |-> next_event_id']

\* some stored publish event of the request is on topic t
StoredPublishOn(store, req, t) ==
    \E i \in 1..Len(store) :
        IsPublish(store[i]) /\ store[i].req = req /\ store[i].topic_name = t

\* C25: the resumption pass puts a node in the execution queue exactly when
\* a topic with a stored publish event lists it as a subscriber, the topic
\* holds data the node has not consumed and the node is ready; a node for
\* which every stored publish event on its topics has a stored consume
\* event is not enqueued.
C25_ResumeEnqueuesReadyOnly ==
    [][IsResumption =>
         \A n \in SeqToSet(NodeNames(graph)) :
            /\ Member(ResumeAppended, n) <=>
                  \E t \in Topics(graph) :
                     /\ StoredPublishOn(events, execution_context', t)
                     /\ Member(topic_nodes(graph, t), n)
                     /\ HasUnconsumed(topic_events', consumption_offsets', t, n)
                     /\ can_execute(StateAfter, NodeOf(graph, n))
            /\ (\A t \in SeqToSet(SubscribedTopics(NodeOf(graph, n))) :
                    ~PendingFor(events, execution_context', t, n))
               => ~Member(ResumeAppended, n)]_vars

\* a resumption found the node joining A and B with a stored publish on A
\* it had not consumed and nothing new on B, and did not enqueue it
C25_Witness ==
    /\ graph = 7
    /\ last_step.op = "initial_workflow"
    /\ last_step.resumed
    /\ HasUnconsumed(topic_events, consumption_offsets, "A", "J")
    /\ ~HasUnconsumed(topic_events, consumption_offsets, "B", "J")
    /\ ~Member(execution_queue, "J")

\* the topics of which a list of consumed events holds an event
ConsumedTopics(evs) == {evs[i].topic_name : i \in 1..Len(evs)}

\* C26: whenever the body of a node subscribed to A AND B is called, the
\* events it is given include an event consumed from A and one consumed
\* from B, also when the node is popped twice and only one of the topics
\* was published to in between.
C26_AndNodeGetsBothTopics ==
    [][(last_step'.op \in {"step", "raise", "await"} /\ last_step'.consumed # <<>>)
       => \A x \in 1..Len(NodeOf(graph, last_step'.node).subscribed_expressions) :
             LET expr == NodeOf(graph, last_step'.node).subscribed_expressions[x]
             IN expr.op = "and" =>
                   SeqToSet(expr.args) \subseteq ConsumedTopics(last_step'.consumed)]_vars

\* the node joining A and B was called with events of both topics
C26_JoinedBoth ==
    /\ last_step.op = "step"
    /\ last_step.node = "J"
    /\ ConsumedTopics(last_step.consumed) = {"A", "B"}

\* C27: when an invocation enters its loop, the execution queue holds the
\* nodes its own initial_workflow enqueued and nothing else, whatever the
\* invocations before it did.
C27_QueueHoldsOwnNodesOnly ==
    [][(pc # "running" /\ last_step'.op = "initial_workflow")
       => execution_queue' =
             initial_workflow(graph, [State EXCEPT !.q = <<>>],
                              execution_context', input').q]_vars

\* an invocation that follows a returned one starts from an empty queue
C27_AfterReturn ==
    /\ invocations > 1
    /\ interrupts = 0
    /\ last_step.op = "initial_workflow"

\* C28: the execution queue never holds the same node twice.
C28_QueueHasNoDuplicates ==
    \A i, j \in 1..Len(execution_queue) :
        execution_queue[i] = execution_queue[j] => i = j

\* several nodes are queued, each once
C28_SeveralQueuedOnce ==
    /\ Len(execution_queue) > 1
    /\ \A i, j \in 1..Len(execution_queue) :
          execution_queue[i] = execution_queue[j] => i = j

\* every message of the input is in the output as often as in the input
InputKeptOnce ==
    LET out == [q \in 1..Len(messages_out) |-> WithoutTools(messages_out[q])]
    IN \A i \in 1..Len(messages_in) :
          Count(out, messages_in[i]) = Count(messages_in, messages_in[i])

\* what the output holds beyond the input is synthetic and empty
OnlySyntheticAdded ==
    \A q \in 1..Len(messages_out) :
        \/ Member(messages_in, WithoutTools(messages_out[q]))
        \/ IsSyntheticToolMessage(messages_out[q])

\* the tool results behind a message answer its tool_calls in their order
ResultsInCallOrder ==
    \A p \in 1..Len(messages_out) :
        \A c \in 1..Len(messages_out[p].tool_calls) :
            /\ p + c <= Len(messages_out)
            /\ messages_out[p + c].tool_call_id = messages_out[p].tool_calls[c]

\* C29: the tool-call post-pass keeps every input message exactly once,
\* adds only synthetic empty tool results, and places the tool results
\* behind a message in the order of that message's tool_calls.
C29_PostPassKeepsMessages ==
    pc = "post_pass_done" => InputKeptOnce /\ OnlySyntheticAdded /\ ResultsInCallOrder

\* a list with a tool-call message and its result, in which the claim holds
C29_AnsweredCallKept ==
    /\ pc = "post_pass_done"
    /\ \E p \in 1..Len(messages_in) : messages_in[p].tool_calls # <<>>
    /\ \E p \in 1..Len(messages_in) : messages_in[p].tool_call_id # NoCallId
    /\ InputKeptOnce /\ OnlySyntheticAdded /\ ResultsInCallOrder

\* the messages of the input are in the data of a stored publish event of
\* the request
InputRecorded(store, req, inp) ==
    \A k \in 1..Len(inp) :
        \E i \in 1..Len(store) :
            IsPublish(store[i]) /\ store[i].req = req /\ Member(store[i].data, inp[k])

\* the claim as stated: after every invocation that returned, a resumption
\* with no human request pending included
C31_InputNeverLost ==
    pc = "returned" /\ ~clears.in_run => InputRecorded(events, execution_context, input)

\* C31: after an invocation returns, its input is in the data of a stored
\* publish event of the request when the invocation was a fresh run (the
\* entry-topic publish) or a resumption that merged the input into a
\* pending human request.
C31_InputRecordedWhenPublishedOrMerged ==
    (pc = "returned" /\ run_kind \in {"fresh", "merged"} /\ ~clears.in_run)
        => InputRecorded(events, execution_context, input)

\* a resumption merged an input that the request had not been given before
\* into the pending human request, and returned
C31_Witness ==
    /\ pc = "returned"
    /\ run_kind = "merged"
    /\ Cardinality(inputs_used[execution_context]) > 1
    /\ InputRecorded(events, execution_context, input)

====
